---- MODULE Spec2Model ----
(***************************************************************************)
(* State lifecycle manager (src/src/lib/gamestates.py), network manager    *)
(* (src/src/lib/networking.py), its transport                               *)
(* (src/src/lib/networking_transport.py), the composite state manager       *)
(* (src/main.py) and the server state (src/src/game/gamestates/main.py).    *)
(*                                                                         *)
(* Specifications:                                                         *)
(*   Spec            one GameStateManager, its load tasks and its callers  *)
(*   SpecRegistry    one NetworkManager's registry of message types        *)
(*   SpecRegistryFill  the registry filled up to its last tag              *)
(*   SpecTransport   one PandaNetworkTransport, its callers and its peers  *)
(*   SpecNet         the construction of one NetworkManager, its calls,    *)
(*                   the peers of its transports and the per-tick update   *)
(*                   of NetworkGameStateManager                            *)
(*   SpecRoundTrip   _serialize_net_msg and _deserialize_net_msg of one    *)
(*                   NetworkManager                                        *)
(*   SpecHost        the two state machines of NetworkGameStateManager     *)
(*   SpecServerState the table of players of MainServer                    *)
(***************************************************************************)
EXTENDS Integers, Sequences, FiniteSets, TLC

VARIABLES
    base,                 \* GameStateManager.base: "none" | "nowin" | "win"
    current_state,        \* GameStateManager.current_state: 0 (None) or an object id
    previous_state_name,  \* GameStateManager.previous_state_name
    current_state_name,   \* GameStateManager.current_state_name
    load_complete,        \* GameStateManager.load_complete
    objects,              \* every GameState object constructed so far, by id
    tasks,                \* the load_state tasks handed to task_mgr, in add order
    fade,                 \* base.transitions: "clear" | "fading_out" | "opaque" | "fading_in"
    last,                 \* the last step taken: the call made and what it did
    message_types,        \* NetworkManager._message_types
    tag_at_registration,  \* per type: number of types registered before it
    reg_last,             \* the last registration call and its outcome
    net_role,             \* NetworkManager.net_role: "CLIENT" | "SERVER" | "DUAL"
    transport_type,       \* the transport_type the NetworkManager was built with
    serializer,           \* NetworkManager.serializer
    transports,           \* NetworkManager._client_transport / _server_transport
    net_last,             \* the last network call and what it did
    transport,            \* one PandaNetworkTransport on its own
    tp_last,              \* the last call made on it and what it did
    issued,               \* every connection id it has issued, in order
    dc_reported,          \* every id get_disconnects has returned, in order
    arrived,              \* every datagram that reached its reader, in order
    received,             \* every item get_messages has returned, in order
    client_gsm,           \* NetworkGameStateManager.client_gsm
    server_gsm,           \* NetworkGameStateManager.server_gsm
    host_last,            \* the last composite call and the error it raised
    player_contrs,        \* MainServer.player_contrs: the player ids it has
    conn_status,          \* per connection id of the server: "none" | "live" | "gone"
    srv_last,             \* the last call on the MainServer state and its outcome
    codec_msg,            \* the message handed to _serialize_net_msg
    codec_bytes,          \* what _serialize_net_msg returned for it
    codec_last            \* the last of these calls and its outcome

gsm_vars == <<base, current_state, previous_state_name, current_state_name,
              load_complete, objects, tasks, fade, last>>
reg_vars == <<message_types, tag_at_registration, reg_last>>
net_vars == <<net_role, transport_type, serializer, transports, net_last>>
tp_vars == <<transport, tp_last, issued, dc_reported, arrived, received>>
host_vars == <<client_gsm, server_gsm, host_last>>
srv_vars == <<player_contrs, conn_status, srv_last>>
codec_vars == <<codec_msg, codec_bytes, codec_last>>
app_vars == <<host_vars, srv_vars, codec_vars>>
vars == <<gsm_vars, reg_vars, net_vars, tp_vars, app_vars>>

----------------------------------------------------------------------------
(* Bounds of the model *)

\* number of GameState objects constructed (successful change() calls)
MaxObjs == 2
\* number of distinct message classes (dataclasses) a caller may register
NumTypes == 4
\* connections the transports of one manager ever see (the client's own one,
\* and those accepted or waiting to be accepted by the server)
MaxConns == 2
\* datagrams waiting in the readers of the transports of one manager
MaxQueue == 2
\* datagrams that ever reach the reader of the transport taken on its own
MaxData == 3
\* cleanup() calls one GameState object receives (change() calls made while
\* the object is current)
MaxCleanups == 2

----------------------------------------------------------------------------
(* The registered states: the `states` mapping given to the constructor *)

None == 0

StateNames == {"A", "B"}

\* names a caller may pass to change(): the registered ones and an unknown one
CallNames == StateNames \cup {"X"}

\* the RESOURCES manifest of a state class, in dict order
RESOURCES(name) ==
    IF name = "A" THEN <<>> ELSE <<"level", "player">>

\* the arguments the constructor of the class registered under `name` takes
\* after `base`: class A keeps the signature of GameState.__init__ (base
\* alone), class B is written like MainClient and MainServer (base, network)
InitArity(name) == IF name = "A" THEN 0 ELSE 1

\* the number of arguments a caller passes to change() after the state name
InitArgs == 0..1

BaseKinds == {"none", "nowin", "win"}

\* fields of `last`: the operation called, its argument, whether it raised and
\* with which exception, and the calls it made on collaborators, in program
\* order
NoCall == [op |-> "init", name |-> "", raised |-> FALSE, error |-> "", calls |-> <<>>]

Call(c, o) == [call |-> c, obj |-> o]

----------------------------------------------------------------------------
(* GameState *)

\* GameState.__init__: a new object of the class registered under `name`
NewGameState(name) ==
    [name |-> name, resources |-> {}, starts |-> 0, cleanups |-> 0]

\* GameState.cleanup, called on object o
Cleanup(objs, o) == [objs EXCEPT ![o].cleanups = @ + 1]

\* GameState.start, called on object o
Start(objs, o) == [objs EXCEPT ![o].starts = @ + 1]

\* one iteration of the loop of GameState.load on object o: resource number i
\* of the manifest has arrived and is stored in self.resources
StoreResource(objs, o, i) ==
    [objs EXCEPT ![o].resources = @ \cup {RESOURCES(objs[o].name)[i]}]

----------------------------------------------------------------------------
(* GameStateManager.__init__ *)

InitGSM ==
    /\ base \in BaseKinds
    /\ current_state = None
    /\ previous_state_name = ""
    /\ current_state_name = ""
    /\ load_complete = FALSE
    /\ objects = <<>>
    /\ tasks = <<>>
    /\ fade = "clear"
    /\ last = NoCall

----------------------------------------------------------------------------
(* GameStateManager.change *)

\* variant: the membership test of line 62 never fails
IsUnknownState_Never(state_name) == FALSE

\* `state_name not in self.states`
IsUnknownState(state_name) == state_name \notin StateNames

\* variant: both branches store the new name
PreviousAfterChange_NewName(state_name) == state_name

\* the value change() assigns to previous_state_name
PreviousAfterChange(state_name) ==
    IF current_state = None THEN state_name ELSE current_state_name

\* the load_state task as task_mgr.add receives it: not yet run.  `own` is the
\* object constructed by the change() that added it, `obj`/`idx` the object
\* whose load() it is suspended in and the manifest entries stored so far,
\* `loaded`/`started` the objects it has called load()/start() on.
NewTask(o) ==
    [pc |-> "new", own |-> o, obj |-> None, idx |-> 0,
     loaded |-> None, started |-> None]

\* `self.states[state_name](self.base, *args, **kwargs)`: the call raises
\* TypeError when the arguments handed on are not those the class takes
ConstructorRaises(state_name, args) == args # InitArity(state_name)

\* the calls change(state_name, *args) makes once the name is validated, in
\* program order: fadeOut(0) or cleanup() of the outgoing object, the
\* constructor of the new object and, when that returned,
\* task_mgr.add(load_state)
ChangeCalls(state_name, args) ==
    LET new == Len(objects) + 1
    IN (IF current_state = None
        THEN (IF base # "none" THEN <<Call("fadeOut0", None)>> ELSE <<>>)
        ELSE <<Call("cleanup", current_state)>>)
       \o (IF ConstructorRaises(state_name, args)
           THEN <<Call("construct_raises", None)>>
           ELSE <<Call("construct", new), Call("add_task", new)>>)

\* the effect of one of these calls on the objects, the task list and the fade
ApplyCall(st, c, state_name) ==
    CASE c.call = "fadeOut0"  -> [st EXCEPT !.fade = "opaque"]
      [] c.call = "cleanup"   -> [st EXCEPT !.objects = Cleanup(@, c.obj)]
      [] c.call = "construct" ->
             [st EXCEPT !.objects = Append(@, NewGameState(state_name))]
      [] c.call = "construct_raises" -> st
      [] c.call = "add_task"  -> [st EXCEPT !.tasks = Append(@, NewTask(c.obj))]

RECURSIVE ApplyCalls(_, _, _)
ApplyCalls(st, calls, state_name) ==
    IF calls = <<>> THEN st
    ELSE ApplyCalls(ApplyCall(st, Head(calls), state_name), Tail(calls), state_name)

\* the body of change(state_name, *args), entered through operation `op`.
\* The names are written (lines 67-71) and the outgoing object is cleaned up
\* (line 70) before the constructor is called (line 73): when the constructor
\* raises, both stay as written and current_state keeps the object it held.
ChangeBody(state_name, args, op) ==
    IF IsUnknownState(state_name)
    THEN /\ last' = [op |-> op, name |-> state_name, raised |-> TRUE,
                     error |-> "RuntimeError", calls |-> <<>>]
         /\ UNCHANGED <<base, current_state, previous_state_name, current_state_name,
                        load_complete, objects, tasks, fade>>
    ELSE LET calls == ChangeCalls(state_name, args)
             raises == ConstructorRaises(state_name, args)
             st == ApplyCalls([objects |-> objects, tasks |-> tasks, fade |-> fade],
                              calls, state_name)
         IN /\ raises \/ Len(objects) < MaxObjs
            /\ current_state # None => objects[current_state].cleanups < MaxCleanups
            /\ previous_state_name' = PreviousAfterChange(state_name)
            /\ current_state_name' = state_name
            /\ objects' = st.objects
            /\ current_state' = IF raises THEN current_state ELSE Len(st.objects)
            /\ tasks' = st.tasks
            /\ fade' = st.fade
            /\ last' = [op |-> op, name |-> state_name, raised |-> raises,
                        error |-> IF raises THEN "TypeError" ELSE "",
                        calls |-> calls]
            /\ UNCHANGED <<base, load_complete>>

Change(state_name, args) ==
    /\ ChangeBody(state_name, args, "change")
    /\ UNCHANGED <<reg_vars, app_vars, net_vars, tp_vars>>

\* GameStateManager.change_to_previous: change() with the stored name and no
\* further argument
ChangeToPrevious ==
    /\ ChangeBody(previous_state_name, 0, "change_to_previous")
    /\ UNCHANGED <<reg_vars, app_vars, net_vars, tp_vars>>

----------------------------------------------------------------------------
(* GameStateManager.update *)

\* `self.current_state and self.load_complete`
UpdateReaches == current_state # None /\ load_complete

\* GameStateManager.update(dt): dt is handed on to the state's update(), which
\* writes nothing the manager reads; the call is recorded in `last`
Update ==
    /\ last' = [op |-> "update", name |-> "", raised |-> FALSE, error |-> "",
                calls |-> IF UpdateReaches
                          THEN <<Call("update", current_state)>> ELSE <<>>]
    /\ UNCHANGED <<base, current_state, previous_state_name, current_state_name,
                   load_complete, objects, tasks, fade, reg_vars, app_vars, net_vars, tp_vars>>

----------------------------------------------------------------------------
(* The load_state coroutine of GameStateManager.change, run by the task     *)
(* manager.  It suspends at `await fadeOut()` and at every `await           *)
(* loader.load_model(...)` of GameState.load; a step below runs it from one *)
(* suspension to the next.  st is the part of the state it writes.          *)

\* base.transitions.fadeOutActive(): the fade card is not fully transparent
FadeOutActive == fade # "clear"

\* lines 85-90: start() of whatever is current now, fadeIn(), load_complete
StartAndFinish(st, k) ==
    [st EXCEPT !.objects = Start(@, current_state),
               !.tasks[k].started = current_state,
               !.tasks[k].pc = "done",
               !.fade = IF base = "win" THEN "fading_in" ELSE @,
               !.load_complete = TRUE]

\* GameState.load on the object bound at line 84, from manifest entry i + 1 on:
\* suspend on the next load_model, or return into load_state when none is left
LoadFrom(st, k, i) ==
    IF i < Len(RESOURCES(st.objects[st.tasks[k].obj].name))
    THEN [st EXCEPT !.tasks[k].pc = "load", !.tasks[k].idx = i]
    ELSE StartAndFinish(st, k)

\* lines 83-84: `self.current_state.load(...)` binds the object that is
\* current when the call is made
BeginLoad(st, k) ==
    IF current_state # None
    THEN LoadFrom([st EXCEPT !.tasks[k].obj = current_state,
                             !.tasks[k].loaded = current_state], k, 0)
    ELSE [st EXCEPT !.tasks[k].pc = "done",
                    !.fade = IF base = "win" THEN "fading_in" ELSE @,
                    !.load_complete = TRUE]

\* lines 76-82: the first run of the task
FirstRun(st, k) ==
    IF base = "none"
    THEN [st EXCEPT !.load_complete = TRUE, !.tasks[k].pc = "done"]
    ELSE LET s1 == [st EXCEPT !.load_complete = FALSE]
         IN IF base = "win" /\ ~FadeOutActive
            THEN [s1 EXCEPT !.fade = "fading_out", !.tasks[k].pc = "fadeOut"]
            ELSE BeginLoad(s1, k)

\* resumed from `await fadeOut()`: the fade has reached opaque
AfterFadeOut(st, k) == BeginLoad([st EXCEPT !.fade = "opaque"], k)

\* resumed from `await loader.load_model(...)`: the model is stored (line 35)
AfterResource(st, k) ==
    LET o == st.tasks[k].obj
        i == st.tasks[k].idx + 1
    IN LoadFrom([st EXCEPT !.objects = StoreResource(@, o, i)], k, i)

\* the task manager runs a new task only after the tasks added before it
\* have had their first run
Runnable(k) ==
    /\ tasks[k].pc # "done"
    /\ tasks[k].pc = "new" => \A j \in 1..(k - 1) : tasks[j].pc # "new"

TaskStep(k) ==
    /\ Runnable(k)
    /\ LET st0 == [load_complete |-> load_complete, objects |-> objects,
                   tasks |-> tasks, fade |-> fade]
           st1 == CASE tasks[k].pc = "new"     -> FirstRun(st0, k)
                    [] tasks[k].pc = "fadeOut" -> AfterFadeOut(st0, k)
                    [] tasks[k].pc = "load"    -> AfterResource(st0, k)
       IN /\ load_complete' = st1.load_complete
          /\ objects' = st1.objects
          /\ tasks' = st1.tasks
          /\ fade' = st1.fade
    /\ last' = [op |-> "load_state", name |-> "", raised |-> FALSE, error |-> "",
                calls |-> <<>>]
    /\ UNCHANGED <<base, current_state, previous_state_name, current_state_name,
                   reg_vars, app_vars, net_vars, tp_vars>>

\* the fade-in interval started by fadeIn() at line 87 runs out
FadeInDone ==
    /\ fade = "fading_in"
    /\ fade' = "clear"
    /\ last' = [op |-> "fade_in_done", name |-> "", raised |-> FALSE, error |-> "",
                calls |-> <<>>]
    /\ UNCHANGED <<base, current_state, previous_state_name, current_state_name,
                   load_complete, objects, tasks, reg_vars, app_vars, net_vars, tp_vars>>

----------------------------------------------------------------------------
(* NetworkManager: the registry of message types *)

\* the message classes: dataclasses 1..NumTypes, and one class that is not a
\* dataclass
MsgTypes == 1..NumTypes
NotADataclass == 0
AnyTypes == MsgTypes \cup {NotADataclass}

\* dataclasses.is_dataclass(message_type): classes are numbered from 1, every
\* one of them a dataclass; NotADataclass is the one object that is not
IsDataclass(t) == t # NotADataclass

\* list.index(x): the 0-based position of the first element equal to x;
\* -1 stands for the ValueError raised when there is none
Index(list, x) ==
    LET at == {i \in 1..Len(list) : list[i] = x}
    IN IF at = {} THEN -1
       ELSE (CHOOSE i \in at : \A j \in at : i <= j) - 1

\* variant: the new type is inserted at the front of the list
AppendType_Front(list, t) == <<t>> \o list

\* line 115: self._message_types.append(message_type)
AppendType(list, t) == Append(list, t)

\* the network side of a program that constructs no NetworkManager: the
\* variables of that side keep these values
NetIdle ==
    /\ net_role = "none"
    /\ transport_type = "none"
    /\ serializer = "none"
    /\ transports = <<>>
    /\ net_last = <<>>

\* the variables of the transport taken on its own, in a program that
\* looks at a manager instead
TransportIdle ==
    /\ transport = <<>>
    /\ tp_last = <<>>
    /\ issued = <<>>
    /\ dc_reported = <<>>
    /\ arrived = <<>>
    /\ received = <<>>

\* the variables of the composite state manager, of the server state and of
\* the serializer, in a program that looks at none of them
AppIdle ==
    /\ client_gsm = <<>>
    /\ server_gsm = <<>>
    /\ host_last = <<>>
    /\ player_contrs = {}
    /\ conn_status = <<>>
    /\ srv_last = <<>>
    /\ codec_msg = <<>>
    /\ codec_bytes = <<>>
    /\ codec_last = <<>>

InitRegistry ==
    /\ message_types = <<>>
    /\ tag_at_registration = <<>>
    /\ reg_last = [op |-> "init", type |-> NotADataclass, raised |-> FALSE,
                   type_id |-> -1]

\* variant: no class counts as registered already
AlreadyRegistered_Never(list, t) == FALSE

\* lines 103-108: self._message_types.index(message_type) finds the class
AlreadyRegistered(list, t) == Index(list, t) # -1

\* NetworkManager.register_message_type(message_type): the registry and the
\* record of the call
RegisterBody(t) ==
    IF AlreadyRegistered(message_types, t) \/ ~IsDataclass(t)
    THEN /\ reg_last' = [op |-> "register", type |-> t, raised |-> TRUE,
                         type_id |-> -1]
         /\ UNCHANGED <<message_types, tag_at_registration>>
    ELSE /\ message_types' = AppendType(message_types, t)
         /\ tag_at_registration' =
                Append(tag_at_registration, [type |-> t, tag |-> Len(message_types)])
         /\ reg_last' = [op |-> "register", type |-> t, raised |-> FALSE,
                         type_id |-> -1]

RegisterMessageType(t) ==
    /\ RegisterBody(t)
    /\ UNCHANGED <<gsm_vars, app_vars, net_vars, tp_vars>>

\* NetworkManager._serialize_net_msg(message), lines 124-131: the type id
\* written into the message of class t
SerializeNetMsg(t) ==
    /\ reg_last' = [op |-> "serialize", type |-> t,
                    raised |-> (Index(message_types, t) = -1),
                    type_id |-> Index(message_types, t)]
    /\ UNCHANGED <<message_types, tag_at_registration, gsm_vars, app_vars, net_vars, tp_vars>>

NextRegistry ==
    \/ \E t \in AnyTypes : RegisterMessageType(t)
    \/ \E t \in AnyTypes : SerializeNetMsg(t)

InitRegistryOnly ==
    /\ InitGSM
    /\ base = "none"
    /\ InitRegistry
    /\ NetIdle
    /\ TransportIdle
    /\ AppIdle

SpecRegistry == InitRegistryOnly /\ [][NextRegistry]_vars

\* the number of registrations a filling run goes up to
MaxRegistered == 257

\* the registry filled one class after the other: each step registers either
\* the next class not yet registered or the class registered last (the object
\* that is no dataclass while the registry is empty)
NextRegistryFill ==
    \E t \in {Len(message_types), Len(message_types) + 1} :
        /\ Len(message_types) < MaxRegistered
        /\ RegisterMessageType(t)

SpecRegistryFill == InitRegistryOnly /\ [][NextRegistryFill]_vars

----------------------------------------------------------------------------
(* PandaNetworkTransport (src/src/lib/networking_transport.py)              *)
(*                                                                          *)
(* A transport is a record: started, connections (the _connections dict as  *)
(* a sequence of [id, conn] in insertion order), next_id, and the queues of *)
(* the Panda objects it polls: listener (connections waiting to be          *)
(* accepted), resets (connections the manager reports as reset), reader     *)
(* (datagrams received, each with the connection it came from).  `owned`    *)
(* is false for a transport the manager did not create (None); `listening` *)
(* says that the listener was given a rendezvous socket; `reported`         *)
(* collects the connections get_disconnects has returned.  A connection     *)
(* object is a handle h >= 1, numbered in order of arrival.                 *)

Sides == {"client", "server"}

\* connection_id of a message that carries none (None)
NoId == -1

NoTransport ==
    [owned |-> FALSE, started |-> FALSE, listening |-> FALSE,
     connections |-> <<>>, next_id |-> 0,
     listener |-> <<>>, resets |-> <<>>, reader |-> <<>>, reported |-> {}]

\* after __post_init__ and start_server(port): listening, no connection yet
StartedServer ==
    [NoTransport EXCEPT !.owned = TRUE, !.started = TRUE, !.listening = TRUE]

\* after __post_init__ and a start_client(host, port) that connected: the one
\* outbound connection is stored under id 0
StartedClient ==
    [NoTransport EXCEPT !.owned = TRUE, !.started = TRUE,
                        !.connections = <<[id |-> 0, conn |-> 1]>>,
                        !.next_id = 1]

\* the connection objects in the table
Handles(tr) == {tr.connections[i].conn : i \in 1..Len(tr.connections)}

\* the connection objects the connection manager holds: those of the table
\* and those waiting in the listener
Held(tr) == Handles(tr) \cup {tr.listener[i] : i \in 1..Len(tr.listener)}

\* the keys of the table
Ids(tr) == {tr.connections[i].id : i \in 1..Len(tr.connections)}

RECURSIVE ConnIdOf(_, _)
\* list(self._connections.keys())[list(self._connections.values()).index(conn)]:
\* the key of the first entry holding conn; NoId stands for the ValueError
\* raised by index() when no entry holds it
ConnIdOf(connections, conn) ==
    IF connections = <<>> THEN NoId
    ELSE IF Head(connections).conn = conn THEN Head(connections).id
    ELSE ConnIdOf(Tail(connections), conn)

\* del self._connections[conn_id]
DelConnection(connections, conn_id) ==
    SelectSeq(connections, LAMBDA e : e.id # conn_id)

\* the smallest id that is not a key of the table
SmallestFreeId(tr) == CHOOSE n \in 0..Len(tr.connections) :
                          /\ n \notin Ids(tr)
                          /\ \A m \in 0..(n - 1) : m \in Ids(tr)

RECURSIVE GetNewConnections_ReuseIds(_, _)
\* variant: a new connection is stored under the smallest free id
GetNewConnections_ReuseIds(tr, ids) ==
    IF tr.listener = <<>> THEN [tr |-> tr, ids |-> ids]
    ELSE GetNewConnections_ReuseIds(
             [tr EXCEPT !.connections =
                            Append(@, [id |-> SmallestFreeId(tr),
                                       conn |-> Head(tr.listener)]),
                        !.next_id = SmallestFreeId(tr) + 1,
                        !.listener = Tail(@)],
             Append(ids, SmallestFreeId(tr)))

\* variant: one call accepts only the first connection that is waiting
GetNewConnections_OneAtATime(tr, ids) ==
    IF tr.listener = <<>> THEN [tr |-> tr, ids |-> ids]
    ELSE [tr |-> [tr EXCEPT !.connections =
                                Append(@, [id |-> tr.next_id,
                                           conn |-> Head(tr.listener)]),
                            !.next_id = @ + 1,
                            !.listener = Tail(@)],
          ids |-> Append(ids, tr.next_id)]

RECURSIVE GetNewConnections(_, _)
\* PandaNetworkTransport.get_new_connections: every connection waiting in the
\* listener is stored under the next id; returns [tr, ids]
GetNewConnections(tr, ids) ==
    IF tr.listener = <<>> THEN [tr |-> tr, ids |-> ids]
    ELSE GetNewConnections(
             [tr EXCEPT !.connections =
                            Append(@, [id |-> tr.next_id, conn |-> Head(tr.listener)]),
                        !.next_id = @ + 1,
                        !.listener = Tail(@)],
             Append(ids, tr.next_id))

RECURSIVE GetDisconnects(_, _)
\* PandaNetworkTransport.get_disconnects: every reset connection is looked up,
\* closed and deleted; returns [tr, ids, error].  The ValueError of a failed
\* lookup is not an AssertionError and leaves the method.
GetDisconnects(tr, ids) ==
    IF tr.resets = <<>> THEN [tr |-> tr, ids |-> ids, error |-> ""]
    ELSE LET rst_conn == Head(tr.resets)
             conn_id == ConnIdOf(tr.connections, rst_conn)
             popped == [tr EXCEPT !.resets = Tail(@)]
         IN IF conn_id = NoId
            THEN [tr |-> popped, ids |-> <<>>, error |-> "ValueError"]
            ELSE GetDisconnects(
                     [popped EXCEPT !.connections = DelConnection(@, conn_id),
                                    !.reported = @ \cup {rst_conn}],
                     Append(ids, conn_id))

RECURSIVE TransportGetMessages(_, _)
\* PandaNetworkTransport.get_messages: every datagram in the reader is taken
\* out and paired with the id of its connection; returns [tr, messages,
\* error].  A datagram of a connection that is not in the table makes the
\* lookup raise; the datagrams taken out before are lost with it.
TransportGetMessages(tr, messages) ==
    IF tr.reader = <<>> THEN [tr |-> tr, messages |-> messages, error |-> ""]
    ELSE LET datagram == Head(tr.reader)
             connectionid == ConnIdOf(tr.connections, datagram.conn)
             popped == [tr EXCEPT !.reader = Tail(@)]
         IN IF connectionid = NoId
            THEN [tr |-> popped, messages |-> <<>>, error |-> "ValueError"]
            ELSE TransportGetMessages(
                     popped,
                     Append(messages, [id |-> connectionid, conn |-> datagram.conn,
                                       data |-> datagram.data]))

\* variant: a broadcast stops after the first connection
TransportSend_FirstOnly(tr, message, connection_id) ==
    IF connection_id = NoId
    THEN [written |-> [i \in 1..(IF tr.connections = <<>> THEN 0 ELSE 1) |->
                           [conn |-> tr.connections[i].conn, data |-> message]],
          error |-> ""]
    ELSE IF connection_id \in Ids(tr)
    THEN [written |-> <<[conn |-> (CHOOSE e \in {tr.connections[i] :
                                       i \in 1..Len(tr.connections)} :
                                       e.id = connection_id).conn,
                         data |-> message]>>,
          error |-> ""]
    ELSE [written |-> <<>>, error |-> "KeyError"]

\* variant: an id that is not in the table is treated like None
TransportSend_DeadIdBroadcasts(tr, message, connection_id) ==
    IF connection_id \notin Ids(tr)
    THEN [written |-> [i \in 1..Len(tr.connections) |->
                           [conn |-> tr.connections[i].conn, data |-> message]],
          error |-> ""]
    ELSE [written |-> <<[conn |-> (CHOOSE e \in {tr.connections[i] :
                                       i \in 1..Len(tr.connections)} :
                                       e.id = connection_id).conn,
                         data |-> message]>>,
          error |-> ""]

\* PandaNetworkTransport.send(message, connection_id): the datagrams handed to
\* the writer, one per target connection in table order; connection_id NoId
\* (None) targets every connection, an id only its own (KeyError when absent)
TransportSend(tr, message, connection_id) ==
    IF connection_id = NoId
    THEN [written |-> [i \in 1..Len(tr.connections) |->
                           [conn |-> tr.connections[i].conn, data |-> message]],
          error |-> ""]
    ELSE IF connection_id \in Ids(tr)
    THEN [written |-> <<[conn |-> (CHOOSE e \in {tr.connections[i] :
                                       i \in 1..Len(tr.connections)} :
                                       e.id = connection_id).conn,
                         data |-> message]>>,
          error |-> ""]
    ELSE [written |-> <<>>, error |-> "KeyError"]

\* the update() of a transport type that has one, called once per
\* NetworkManager.update: it polls the new connections, then the disconnects
TransportUpdate(tr) ==
    LET n == GetNewConnections(tr, <<>>)
        d == GetDisconnects(n.tr, <<>>)
    IN [tr |-> d.tr, new_ids |-> n.ids, dc_ids |-> d.ids, error |-> d.error]

----------------------------------------------------------------------------
(* One PandaNetworkTransport taken on its own: its callers and its peers    *)

\* after the constructor: nothing started, no connection, next id 0
NewTransport == [NoTransport EXCEPT !.owned = TRUE]

\* the connection object the next arrival gets: they are numbered in order
NextHandle(tr) == tr.next_id + Len(tr.listener) + 1

\* variant: a second start_server is accepted
StartServerEffect_NoCheck(tr, opened) ==
    IF ~opened THEN [tr |-> tr, error |-> "listen_failed"]
    ELSE [tr |-> [tr EXCEPT !.started = TRUE, !.listening = TRUE], error |-> ""]

\* PandaNetworkTransport.start_server(port); `opened` says whether
\* open_TCP_server_rendezvous gave a connection.  Returns [tr, error].
StartServerEffect(tr, opened) ==
    IF tr.started THEN [tr |-> tr, error |-> "already_started"]
    ELSE IF ~opened THEN [tr |-> tr, error |-> "listen_failed"]
    ELSE [tr |-> [tr EXCEPT !.started = TRUE, !.listening = TRUE], error |-> ""]

\* variant: a failed connection attempt uses up a connection id
StartClientEffect_ConsumesId(tr, connected) ==
    IF tr.started THEN [tr |-> tr, ids |-> <<>>, error |-> "already_started"]
    ELSE IF ~connected
         THEN [tr |-> [tr EXCEPT !.next_id = @ + 1], ids |-> <<>>,
               error |-> "connect_failed"]
    ELSE [tr |-> [tr EXCEPT !.connections =
                                Append(@, [id |-> tr.next_id, conn |-> NextHandle(tr)]),
                            !.next_id = @ + 1,
                            !.started = TRUE],
          ids |-> <<tr.next_id>>, error |-> ""]

\* PandaNetworkTransport.start_client(host, port); `connected` says whether
\* open_TCP_client_connection gave a connection.  Returns [tr, ids, error],
\* ids being the id stored for the connection.
StartClientEffect(tr, connected) ==
    IF tr.started THEN [tr |-> tr, ids |-> <<>>, error |-> "already_started"]
    ELSE IF ~connected THEN [tr |-> tr, ids |-> <<>>, error |-> "connect_failed"]
    ELSE [tr |-> [tr EXCEPT !.connections =
                                Append(@, [id |-> tr.next_id, conn |-> NextHandle(tr)]),
                            !.next_id = @ + 1,
                            !.started = TRUE],
          ids |-> <<tr.next_id>>, error |-> ""]

\* the payload a caller hands to send()
Payload == "payload"

\* the connection ids a caller may pass to send(): None, and every id that
\* could have been issued and one more
SendIds == {NoId} \cup 0..MaxConns

\* a record of one call on the transport: the argument (the flag of a start,
\* the connection id of a send), the error raised ("" for none), the ids
\* returned, the datagrams handed to the writer, the items returned
TCall(op) ==
    [op |-> op, flag |-> FALSE, connection_id |-> NoId, error |-> "",
     ids |-> <<>>, written |-> <<>>, messages |-> <<>>]

CallStartServer(opened) ==
    LET r == StartServerEffect(transport, opened)
    IN /\ transport' = r.tr
       /\ tp_last' = [TCall("start_server") EXCEPT !.flag = opened, !.error = r.error]
       /\ UNCHANGED <<issued, dc_reported, arrived, received,
                      gsm_vars, reg_vars, app_vars, net_vars>>

CallStartClient(connected) ==
    LET r == StartClientEffect(transport, connected)
    IN /\ transport' = r.tr
       /\ issued' = issued \o r.ids
       /\ tp_last' = [TCall("start_client") EXCEPT !.flag = connected,
                          !.error = r.error, !.ids = r.ids]
       /\ UNCHANGED <<dc_reported, arrived, received, gsm_vars, reg_vars, app_vars, net_vars>>

CallGetNewConnections ==
    LET r == GetNewConnections(transport, <<>>)
    IN /\ transport' = r.tr
       /\ issued' = issued \o r.ids
       /\ tp_last' = [TCall("get_new_connections") EXCEPT !.ids = r.ids]
       /\ UNCHANGED <<dc_reported, arrived, received, gsm_vars, reg_vars, app_vars, net_vars>>

CallGetDisconnects ==
    LET r == GetDisconnects(transport, <<>>)
    IN /\ transport' = r.tr
       /\ dc_reported' = dc_reported \o r.ids
       /\ tp_last' = [TCall("get_disconnects") EXCEPT !.error = r.error,
                          !.ids = r.ids]
       /\ UNCHANGED <<issued, arrived, received, gsm_vars, reg_vars, app_vars, net_vars>>

CallGetMessages ==
    LET r == TransportGetMessages(transport, <<>>)
    IN /\ transport' = r.tr
       /\ received' = received \o r.messages
       /\ tp_last' = [TCall("get_messages") EXCEPT !.error = r.error,
                          !.messages = r.messages]
       /\ UNCHANGED <<issued, dc_reported, arrived, gsm_vars, reg_vars, app_vars, net_vars>>

CallSend(connection_id) ==
    LET r == TransportSend(transport, Payload, connection_id)
    IN /\ tp_last' = [TCall("send") EXCEPT !.connection_id = connection_id,
                          !.error = r.error, !.written = r.written]
       /\ UNCHANGED <<transport, issued, dc_reported, arrived, received,
                      gsm_vars, reg_vars, app_vars, net_vars>>

\* a peer connects to the rendezvous socket of a listening transport
PeerConnects ==
    /\ transport.listening
    /\ transport.next_id + Len(transport.listener) < MaxConns
    /\ transport' = [transport EXCEPT !.listener = Append(@, NextHandle(transport))]
    /\ tp_last' = TCall("peer")
    /\ UNCHANGED <<issued, dc_reported, arrived, received,
                   gsm_vars, reg_vars, app_vars, net_vars>>

\* the connection h of the transport is reset by its peer: the connection
\* manager queues the reset of any connection it holds, one stored in the
\* table or one the listener accepted and get_new_connections has not
\* stored yet
PeerResets(h) ==
    /\ h \in Held(transport)
    /\ \A i \in 1..Len(transport.resets) : transport.resets[i] # h
    /\ transport' = [transport EXCEPT !.resets = Append(@, h)]
    /\ tp_last' = TCall("peer")
    /\ UNCHANGED <<issued, dc_reported, arrived, received,
                   gsm_vars, reg_vars, app_vars, net_vars>>

\* a datagram arrives on the connection h; its data is its arrival number
PeerSends(h) ==
    LET datagram == [conn |-> h, data |-> Len(arrived) + 1]
    IN /\ h \in Handles(transport)
       /\ \A i \in 1..Len(transport.resets) : transport.resets[i] # h
       /\ Len(transport.reader) < MaxQueue
       /\ Len(arrived) < MaxData
       /\ transport' = [transport EXCEPT !.reader = Append(@, datagram)]
       /\ arrived' = Append(arrived, datagram)
       /\ tp_last' = TCall("peer")
       /\ UNCHANGED <<issued, dc_reported, received, gsm_vars, reg_vars, app_vars, net_vars>>

InitTransport ==
    /\ InitGSM
    /\ base = "none"
    /\ InitRegistry
    /\ NetIdle
    /\ AppIdle
    /\ transport = NewTransport
    /\ tp_last = TCall("init")
    /\ issued = <<>>
    /\ dc_reported = <<>>
    /\ arrived = <<>>
    /\ received = <<>>

NextTransport ==
    \/ \E opened \in BOOLEAN : CallStartServer(opened)
    \/ \E connected \in BOOLEAN : CallStartClient(connected)
    \/ CallGetNewConnections
    \/ CallGetDisconnects
    \/ CallGetMessages
    \/ \E connection_id \in SendIds : CallSend(connection_id)
    \/ PeerConnects
    \/ \E h \in 1..MaxConns : PeerResets(h)
    \/ \E h \in 1..MaxConns : PeerSends(h)

SpecTransport == InitTransport /\ [][NextTransport]_vars

----------------------------------------------------------------------------
(* NetworkManager (src/src/lib/networking.py): roles, send, get_messages,   *)
(* update                                                                   *)

NetRoles == {"CLIENT", "SERVER", "DUAL"}

\* the transport_type argument of NetworkManager: PandaNetworkTransport, the
\* default and the class of networking_transport.py, which has no update()
\* method, or a transport class that has the same methods and an update()
TransportTypes == {"PandaNetworkTransport", "UpdatingTransport"}

\* the message classes a caller offers to the manager: two dataclasses, and
\* a class that is no dataclass, as every message class of src is (the
\* subclasses of the Protocol NetworkMessage in network_messages.py)
NetTypes == {1, 2, NotADataclass}

\* the messages a caller may pass to send(): a class and the connection_id
\* field of the instance (none, or the id of the first connection)
OutMessages == {[type |-> 1, connection_id |-> NoId],
                [type |-> 2, connection_id |-> 0],
                [type |-> NotADataclass, connection_id |-> NoId]}

\* the payloads a peer may put on the wire: after deserialisation a dict with
\* its __typeid__ (0 and 1, in range or not by what is registered, and a
\* negative one) and the connection_id field as the sender left it
InPayloads == [type_id : -1..1, connection_id : {NoId}]

\* NetworkManager.__post_init__: which transports exist for a role
InitTransports(role) ==
    [side \in Sides |->
        IF side = "server"
        THEN (IF role \in {"SERVER", "DUAL"} THEN StartedServer ELSE NoTransport)
        ELSE (IF role \in {"CLIENT", "DUAL"} THEN StartedClient ELSE NoTransport)]

\* a record of one network call; every field but op and role is filled in by
\* the call: the message given to send(), the error raised ("" for none), the datagrams handed to writers,
\* what the transport drained and what get_messages returned, the ids the
\* polls of update() returned, the handler hooks invoked, the load flags the
\* per-tick update found, the messages given
\* to handle_messages of each state machine, and the calls made in order
NetCall(op, role) ==
    [op |-> op, role |-> role, msg |-> [type |-> NotADataclass, connection_id |-> NoId],
     loaded |-> [side \in Sides |-> FALSE],
     handles |-> [side \in Sides |-> FALSE],
     error |-> "", written |-> <<>>, drained |-> <<>>,
     returned |-> <<>>, polled |-> <<>>, handled |-> <<>>, delivered |-> <<>>,
     calls |-> <<>>]

\* variant: the role argument is used as given, also when the manager has a
\* single role
TransportFromNetrole_AsGiven(netrole) ==
    IF net_role = "DUAL" /\ netrole = "DUAL" THEN "ambiguous"
    ELSE IF netrole = "CLIENT" THEN "client"
    ELSE IF netrole = "SERVER" THEN "server"
    ELSE "no_transport"

\* variant: a DUAL manager asked for DUAL falls back to its server side
TransportFromNetrole_NoAmbiguity(netrole) ==
    LET r == IF net_role # "DUAL" THEN net_role ELSE netrole
    IN IF r = "CLIENT" THEN "client" ELSE "server"

\* variant: the two single roles are resolved crosswise
TransportFromNetrole_Swapped(netrole) ==
    IF net_role = "DUAL" /\ netrole = "DUAL" THEN "ambiguous"
    ELSE LET r == IF net_role # "DUAL" THEN net_role ELSE netrole
         IN IF r = "CLIENT" THEN "server"
            ELSE IF r = "SERVER" THEN "client"
            ELSE "no_transport"

\* NetworkManager._transport_from_netrole: the side of the transport a role
\* resolves to, or the error raised
TransportFromNetrole(netrole) ==
    IF net_role = "DUAL" /\ netrole = "DUAL" THEN "ambiguous"
    ELSE LET r == IF net_role # "DUAL" THEN net_role ELSE netrole
         IN IF r = "CLIENT" THEN "client"
            ELSE IF r = "SERVER" THEN "server"
            ELSE "no_transport"

\* variant: an unregistered class is sent under tag 0
TypeIdOf_NoCheck(types, t) ==
    IF Index(types, t) = -1 THEN 0 ELSE Index(types, t)

\* _serialize_net_msg, lines 124-131: self._message_types.index(msgtype)
TypeIdOf(types, t) == Index(types, t)

\* _serialize_net_msg, lines 133-143: the dict of the message with its
\* __typeid__, as the serializer puts it on the wire
WireOf(msg, type_id) ==
    [type_id |-> type_id, connection_id |-> msg.connection_id]

\* the target send() passes to the transport: none, so every connection
SendTarget(msg) == NoId

\* NetworkManager.send(message, netrole): the call record and nothing else,
\* the writer belongs to Panda
SendEffect(msg, netrole) ==
    LET type_id == TypeIdOf(message_types, msg.type)
        side == TransportFromNetrole(netrole)
        call == [NetCall("send", netrole) EXCEPT !.msg = msg]
    IN IF type_id = -1 THEN [call EXCEPT !.error = "unregistered"]
       ELSE IF side \notin Sides THEN [call EXCEPT !.error = side]
       ELSE LET r == TransportSend(transports[side], WireOf(msg, type_id),
                                   SendTarget(msg))
            IN [call EXCEPT !.error = r.error,
                            !.written = [i \in 1..Len(r.written) |->
                                            [side |-> side,
                                             conn |-> r.written[i].conn,
                                             data |-> r.written[i].data]]]

Send(msg, netrole) ==
    /\ net_last' = SendEffect(msg, netrole)
    /\ UNCHANGED <<net_role, transport_type, serializer, transports, gsm_vars, reg_vars, app_vars, tp_vars>>

\* self._message_types[type_id]: Python indexing, a negative index counts
\* from the end
PyIndexValid(list, i) == -Len(list) <= i /\ i < Len(list)
PyItem(list, i) == IF i >= 0 THEN list[i + 1] ELSE list[Len(list) + i + 1]

\* what get_messages hands to _deserialize_net_msg for an item of
\* transport.get_messages(): line 181 passes the item as it is, the tuple
\* (connection id, blob) of networking_transport.py:121
Handed(item) == [kind |-> "tuple", id |-> item.id, data |-> item.data]

\* the serializers a NetworkManager may be built with: JsonNetworkSerializer,
\* the default_factory of the field, a class with the one-argument
\* deserialize that line 146 is written for, and MsgspecNetworkSerializer,
\* the class of networking_serializers.py
Serializers == {"MsgspecNetworkSerializer", "JsonNetworkSerializer"}

\* MsgspecNetworkSerializer.deserialize(msgbytes, msgtype) called with the one
\* argument of line 146: TypeError for the missing argument, whatever is
\* passed
MsgspecDeserialize(message) == [error |-> "TypeError", msgdict |-> message.data]

\* deserialize(message) of a serializer that decodes bytes into the dict of
\* the payload: anything that is not bytes raises TypeError
JsonDeserialize(message) ==
    IF message.kind = "bytes" THEN [error |-> "", msgdict |-> message.data]
    ELSE [error |-> "TypeError", msgdict |-> message.data]

\* self.serializer.deserialize(message), line 146
SerializerDeserialize(message) ==
    IF serializer = "MsgspecNetworkSerializer" THEN MsgspecDeserialize(message)
    ELSE JsonDeserialize(message)

\* whether class t declares the field `key` in its own body, so that
\* t.__annotations__ holds it: class 2 inherits connection_id from a base
\* class, every other class declares it itself
DeclaresItself(t, key) == key # "connection_id" \/ t # 2

\* msgtype.__annotations__[key], line 152, for a key the class declares:
\* class 1 annotates connection_id `int | None` as networking_message.py:25
\* does, the classes from 3 on annotate it `int`
AnnotationOf(t, key) ==
    IF key = "connection_id" /\ t = 1 THEN "int | None" ELSE "int"

\* issubclass(vtype, ...) of line 153 raises TypeError when vtype is a union
\* and not a class
IssubclassRaises(vtype) == vtype = "int | None"

\* the connection_id of a message built by _deserialize_net_msg: the field of
\* the payload, the id the transport reported is not read
Stamp(message) == message.data.connection_id

\* NetworkManager._deserialize_net_msg(message), lines 145-159, with the
\* serializer the manager was built with: [error, msg].  Every payload carries the
\* key connection_id
DeserializeNetMsg(message) ==
    LET d == SerializerDeserialize(message)
        none == [type |-> NotADataclass, connection_id |-> NoId]
    IN IF d.error # "" THEN [error |-> d.error, msg |-> none]
       ELSE IF ~PyIndexValid(message_types, d.msgdict.type_id)
       THEN [error |-> "IndexError", msg |-> none]
       ELSE LET msgtype == PyItem(message_types, d.msgdict.type_id)
            IN IF ~DeclaresItself(msgtype, "connection_id")
               THEN [error |-> "KeyError", msg |-> none]
               ELSE IF IssubclassRaises(AnnotationOf(msgtype, "connection_id"))
               THEN [error |-> "TypeError", msg |-> none]
               ELSE [error |-> "",
                     msg |-> [type |-> msgtype, connection_id |-> Stamp(message)]]

RECURSIVE FirstError(_)
\* the list comprehension of get_messages over the drained items: the error
\* of the first item whose decoding raises, "" when none does
FirstError(messages) ==
    IF messages = <<>> THEN ""
    ELSE LET e == DeserializeNetMsg(Handed(Head(messages))).error
         IN IF e # "" THEN e ELSE FirstError(Tail(messages))

\* NetworkManager.get_messages(netrole) on transports trs: [transports,
\* error, drained, returned].  The transport is drained first; the list
\* comprehension then decodes item by item and the first item that raises
\* ends the call, with nothing returned
GetMessagesEffect(trs, netrole) ==
    LET side == TransportFromNetrole(netrole)
    IN IF side \notin Sides
       THEN [transports |-> trs, error |-> side, drained |-> <<>>,
             returned |-> <<>>]
       ELSE LET r == TransportGetMessages(trs[side], <<>>)
                after == [trs EXCEPT ![side] = r.tr]
            IN IF r.error # ""
               THEN [transports |-> after, error |-> r.error, drained |-> <<>>,
                     returned |-> <<>>]
               ELSE IF FirstError(r.messages) # ""
               THEN [transports |-> after, error |-> FirstError(r.messages),
                     drained |-> r.messages, returned |-> <<>>]
               ELSE [transports |-> after, error |-> "", drained |-> r.messages,
                     returned |-> [i \in 1..Len(r.messages) |->
                                      DeserializeNetMsg(
                                          Handed(r.messages[i])).msg]]

GetMessages(netrole) ==
    \E g \in {GetMessagesEffect(transports, netrole)} :
       /\ transports' = g.transports
       /\ net_last' = [NetCall("get_messages", netrole) EXCEPT
                           !.error = g.error, !.drained = g.drained,
                           !.returned = g.returned]
       /\ UNCHANGED <<net_role, transport_type, serializer, gsm_vars, reg_vars, app_vars, tp_vars>>

\* the ids a poll returned, as entries of `polled`
PolledOf(side, u) ==
    [i \in 1..Len(u.new_ids) |-> [side |-> side, kind |-> "new", id |-> u.new_ids[i]]]
    \o [i \in 1..Len(u.dc_ids) |-> [side |-> side, kind |-> "dc", id |-> u.dc_ids[i]]]

\* the hooks NetworkManager.update invokes for the ids its polls returned:
\* lines 117-121 invoke none
HandlersInvoked(polled) == <<>>

\* NetworkManager.update() on transports trs: the server transport, then the
\* client transport; [transports, error, polled, handled].  The first
\* transport the manager owns is asked for its update(): a
\* PandaNetworkTransport has no such attribute and the call raises
\* AttributeError with nothing polled
NetUpdateEffect(trs) ==
    IF transport_type = "PandaNetworkTransport"
    THEN [transports |-> trs, error |-> "AttributeError", polled |-> <<>>,
          handled |-> <<>>]
    ELSE
    LET s == IF trs["server"].owned THEN TransportUpdate(trs["server"])
             ELSE [tr |-> trs["server"], new_ids |-> <<>>, dc_ids |-> <<>>,
                   error |-> ""]
        c == IF trs["client"].owned /\ s.error = ""
             THEN TransportUpdate(trs["client"])
             ELSE [tr |-> trs["client"], new_ids |-> <<>>, dc_ids |-> <<>>,
                   error |-> ""]
        polled == PolledOf("server", s) \o PolledOf("client", c)
    IN [transports |-> [side \in Sides |-> IF side = "server" THEN s.tr ELSE c.tr],
        error |-> IF s.error # "" THEN s.error ELSE c.error,
        polled |-> polled,
        handled |-> HandlersInvoked(polled)]

NetUpdate ==
    \E u \in {NetUpdateEffect(transports)} :
       /\ transports' = u.transports
       /\ net_last' = [NetCall("update", "") EXCEPT
                           !.error = u.error, !.polled = u.polled,
                           !.handled = u.handled]
       /\ UNCHANGED <<net_role, transport_type, serializer, gsm_vars, reg_vars, app_vars, tp_vars>>

----------------------------------------------------------------------------
(* The peers of the transports, the load flags of the state machines and    *)
(* NetworkGameStateManager.update (src/main.py)                             *)

\* a peer connects to the listening socket of the server transport
RemoteConnect ==
    LET tr == transports["server"]
        seen == tr.next_id + Len(tr.listener)
    IN /\ tr.owned
       /\ seen + transports["client"].next_id < MaxConns
       /\ transports' = [transports EXCEPT
                             !["server"].listener = Append(@, seen + 1)]
       /\ net_last' = NetCall("peer", "")
       /\ UNCHANGED <<net_role, transport_type, serializer, gsm_vars, reg_vars, app_vars, tp_vars>>

\* the connection h of a transport is reset by its peer: the connection
\* manager queues the reset of any connection it holds, one stored in the
\* table or one the listener accepted and get_new_connections has not
\* stored yet
RemoteReset(side, h) ==
    LET tr == transports[side]
    IN /\ tr.owned
       /\ h \in Held(tr)
       /\ \A i \in 1..Len(tr.resets) : tr.resets[i] # h
       /\ transports' = [transports EXCEPT ![side].resets = Append(@, h)]
       /\ net_last' = NetCall("peer", "")
       /\ UNCHANGED <<net_role, transport_type, serializer, gsm_vars, reg_vars, app_vars, tp_vars>>

\* a datagram arrives on the connection h of a transport
RemoteData(side, h, payload) ==
    LET tr == transports[side]
    IN /\ tr.owned
       /\ h \in Handles(tr)
       /\ \A i \in 1..Len(tr.resets) : tr.resets[i] # h
       /\ Len(transports["client"].reader) + Len(transports["server"].reader)
              < MaxQueue
       /\ transports' = [transports EXCEPT
                             ![side].reader = Append(@, [conn |-> h, data |-> payload])]
       /\ net_last' = NetCall("peer", "")
       /\ UNCHANGED <<net_role, transport_type, serializer, gsm_vars, reg_vars, app_vars, tp_vars>>

\* NetworkGameStateManager.__post_init__, lines 49-52: the state machine of a
\* side exists when the manager has that role
HasGsm(side) ==
    IF side = "client" THEN net_role \in {"DUAL", "CLIENT"}
    ELSE net_role \in {"DUAL", "SERVER"}

\* load_complete of client_gsm and of server_gsm as update() may find them:
\* a change() clears the flag and the end of the load task sets it, at any
\* time between two updates; a side without a state machine has none
LoadFlags == {f \in [Sides -> BOOLEAN] : \A side \in Sides : f[side] => HasGsm(side)}

\* what `getattr(gsm.current_state, 'handle_messages', None)` finds for each
\* side, given the load flags: the lookup is made only past the gate of a
\* loaded side, and the class of the current state may or may not define the
\* method
HandlerFlags(loaded) ==
    {f \in [Sides -> BOOLEAN] : \A side \in Sides : f[side] => loaded[side]}

\* NetworkRole passed by update() for a side
RoleOf(side) == IF side = "client" THEN "CLIENT" ELSE "SERVER"

\* _handle_messages(gsm, netrole) followed by gsm.update(dt) for one side, on
\* the result d of what ran before it
HandleSide(d, side) ==
    IF ~HasGsm(side) \/ d.error # "" THEN d
    ELSE IF ~d.loaded[side]
    THEN [d EXCEPT !.calls = Append(@, "update:" \o side)]
    ELSE IF ~d.handles[side]
    THEN [d EXCEPT !.calls = @ \o <<"print:" \o side, "update:" \o side>>]
    ELSE LET g == GetMessagesEffect(d.transports, RoleOf(side))
         IN IF g.error # ""
            THEN [d EXCEPT !.transports = g.transports, !.error = g.error,
                           !.calls = Append(@, "get_messages:" \o side)]
            ELSE [d EXCEPT !.transports = g.transports,
                           !.delivered = Append(@, [side |-> side,
                                                    drained |-> g.drained,
                                                    messages |-> g.returned]),
                           !.calls = @ \o <<"get_messages:" \o side,
                                            "handle_messages:" \o side,
                                            "update:" \o side>>]

\* lines 76-81: the client side, then the server side
DrainAll(trs, loaded, handles, calls) ==
    HandleSide(HandleSide([transports |-> trs, loaded |-> loaded,
                           handles |-> handles, error |-> "",
                           delivered |-> <<>>, calls |-> calls],
                          "client"), "server")

\* NetworkGameStateManager.update(dt), lines 74-81
TickEffect(trs, loaded, handles) ==
    LET u == NetUpdateEffect(trs)
    IN IF u.error # ""
       THEN [transports |-> u.transports, error |-> u.error, polled |-> <<>>,
             handled |-> <<>>, delivered |-> <<>>, calls |-> <<"network.update">>]
       ELSE LET d == DrainAll(u.transports, loaded, handles, <<"network.update">>)
            IN [transports |-> d.transports, error |-> d.error,
                polled |-> u.polled, handled |-> u.handled,
                delivered |-> d.delivered, calls |-> d.calls]

Tick(loaded, handles) ==
    \E t \in {TickEffect(transports, loaded, handles)} :
       /\ transports' = t.transports
       /\ net_last' = [NetCall("tick", "") EXCEPT
                           !.loaded = loaded, !.handles = handles,
                           !.error = t.error, !.polled = t.polled,
                           !.handled = t.handled, !.delivered = t.delivered,
                           !.calls = t.calls]
       /\ UNCHANGED <<net_role, transport_type, serializer, gsm_vars, reg_vars, app_vars, tp_vars>>

\* register_message_type called on the manager of this specification
NetRegister(t) ==
    /\ RegisterBody(t)
    /\ net_last' = NetCall("register", "")
    /\ UNCHANGED <<net_role, transport_type, serializer, transports, gsm_vars, app_vars, tp_vars>>

\* the record of the constructor call: what its closing self.update() polled
\* and the error it raised
ConstructorCall(role, u) ==
    [NetCall("init", role) EXCEPT !.error = u.error, !.polled = u.polled,
                                  !.handled = u.handled]

\* NetworkManager(net_role, transport_type, serializer), lines 78-99: the
\* transports of the role are created and started, then self.update() is
\* called.  When that raises, the constructor raises and the program has no
\* manager: net_role stays "none" and the transports are dropped
NetworkManagerInit ==
    /\ transport_type \in TransportTypes
    /\ \E role \in NetRoles, ser \in Serializers :
           \E u \in {NetUpdateEffect(InitTransports(role))} :
               IF u.error # ""
               THEN /\ net_role = "none"
                    /\ serializer = "none"
                    /\ transports = [side \in Sides |-> NoTransport]
                    /\ net_last = ConstructorCall(role, u)
               ELSE /\ net_role = role
                    /\ serializer = ser
                    /\ transports = u.transports
                    /\ net_last = ConstructorCall(role, u)

\* a program that has constructed a NetworkManager, or failed to: nothing
\* registered yet
InitNet ==
    /\ InitGSM
    /\ base = "none"
    /\ InitRegistry
    /\ NetworkManagerInit
    /\ TransportIdle
    /\ AppIdle

\* whether the constructor returned a manager
Constructed == net_role \in NetRoles

NextNet ==
    /\ Constructed
    /\ \/ \E t \in NetTypes : NetRegister(t)
       \/ \E m \in OutMessages, r \in NetRoles : Send(m, r)
       \/ \E r \in NetRoles : GetMessages(r)
       \/ NetUpdate
       \/ \E loaded \in LoadFlags : \E handles \in HandlerFlags(loaded) :
              Tick(loaded, handles)
       \/ RemoteConnect
       \/ \E side \in Sides, h \in 1..MaxConns : RemoteReset(side, h)
       \/ \E side \in Sides, h \in 1..MaxConns, p \in InPayloads :
              RemoteData(side, h, p)

SpecNet == InitNet /\ [][NextNet]_vars

----------------------------------------------------------------------------

\* one GameStateManager, constructed with any of the three kinds of base, in
\* a program that builds no NetworkManager
Init == InitGSM /\ InitRegistry /\ NetIdle /\ TransportIdle /\ AppIdle

Next ==
    \/ \E n \in CallNames, args \in InitArgs : Change(n, args)
    \/ ChangeToPrevious
    \/ Update
    \/ \E k \in 1..Len(tasks) : TaskStep(k)
    \/ FadeInDone

Spec == Init /\ [][Next]_vars

----------------------------------------------------------------------------
(* Properties of the state lifecycle manager *)

\* the step just taken was a change() (or change_to_previous()) that did not raise
ChangedNow == last'.op \in {"change", "change_to_previous"} /\ ~last'.raised

\* the last call was an update() or handle_messages() that reached an object
ReachedObject ==
    /\ last.op \in {"update", "handle_messages"}
    /\ last.calls # <<>>

\* every manifest entry of object o is in its resources
FullyLoaded(o) ==
    \A i \in 1..Len(RESOURCES(objects[o].name)) :
        RESOURCES(objects[o].name)[i] \in objects[o].resources

\* the current object's load task has not finished and every task added
\* before it has run to its end on its own object: a single transition is in
\* progress and none before it was overtaken by a later change()
SoleTransitionPending ==
    /\ current_state # None
    /\ tasks[current_state].pc # "done"
    /\ \A k \in 1..(current_state - 1) :
           tasks[k].pc = "done" /\ tasks[k].started = tasks[k].own

\* C1: with a base attached, while the load task of the latest change() has
\* not finished (and no earlier one is still running) load_complete is false,
\* and no update() or handle_messages() call has just reached the new object.
C1_GatedUntilLoaded ==
    (base # "none" /\ SoleTransitionPending) =>
        /\ ~load_complete
        /\ ~(ReachedObject /\ last.calls[1].obj = current_state)

\* C2: when a load task finishes (load_complete becomes true), start() has
\* been called exactly once on the object that is current, whatever the base;
\* an update() call reaches an object only after its start().
C2_StartedExactlyOnce ==
    [][ /\ \A k \in 1..Len(tasks) :
               (tasks[k].pc # "done" /\ tasks'[k].pc = "done")
                   => objects'[current_state'].starts = 1
        /\ (last'.op = "update" /\ last'.calls # <<>>)
               => objects'[last'.calls[1].obj].starts >= 1 ]_vars

\* C3: while a load task is pending the current state is the object its own
\* change() constructed (a later change() is queued or rejected), and a load
\* task loads and starts no other object than that one.
C3_NoReplacementWhilePending ==
    \A k \in 1..Len(tasks) :
        /\ tasks[k].pc # "done" => current_state = tasks[k].own
        /\ tasks[k].loaded \in {None, tasks[k].own}
        /\ tasks[k].started \in {None, tasks[k].own}

\* C4: with a window attached, the resources are loaded before start() and
\* start() returns before load_complete is set: an object on which start() was
\* invoked has every entry of its manifest loaded, and load_complete is true
\* only when start() has been invoked on the current object.
C4_TransitionOrder ==
    base = "win" =>
        /\ \A o \in 1..Len(objects) : objects[o].starts > 0 => FullyLoaded(o)
        /\ (current_state # None /\ load_complete)
               => objects[current_state].starts >= 1

PassedNameCheckNow ==
    last'.op \in {"change", "change_to_previous"} /\ last'.error # "RuntimeError"

C6_BootstrapReenters ==
    [][ /\ (current_state = None /\ last'.op = "change" /\ ~last'.raised)
               => /\ previous_state_name' = last'.name
                  /\ \A i \in 1..Len(last'.calls) : last'.calls[i].call # "cleanup"
                  /\ \A o \in 1..Len(objects') : objects'[o].cleanups = 0
        /\ (Len(objects) = 1 /\ last.op = "change"
            /\ last'.op = "change_to_previous")
               => /\ ~last'.raised
                  /\ current_state' = 2
                  /\ objects'[2].name = objects[1].name
                  /\ current_state_name' = objects[1].name ]_vars

\* C7: a change() that is not the first and does not raise stores the outgoing
\* current_state_name in previous_state_name and calls cleanup() on the
\* outgoing object exactly once, before it constructs the new object.
C7_CleanupBeforeConstruct ==
    [][ (current_state # None /\ ChangedNow)
            => /\ previous_state_name' = current_state_name
               /\ objects[current_state].cleanups = 0
               /\ objects'[current_state].cleanups = 1
               /\ Cardinality({i \in 1..Len(last'.calls) :
                                   last'.calls[i].call = "cleanup"}) = 1
               /\ \E i, j \in 1..Len(last'.calls) :
                      /\ i < j
                      /\ last'.calls[i] = Call("cleanup", current_state)
                      /\ last'.calls[j] = Call("construct", current_state') ]_vars

\* C8: change(name) with an unregistered name raises and leaves current_state,
\* both names, load_complete, every object (no cleanup) and the task list (no
\* load task) as they were.
C8_UnknownNameRaises ==
    [][ (last'.op = "change" /\ last'.name \notin StateNames)
            => /\ last'.raised
               /\ last'.calls = <<>>
               /\ UNCHANGED <<current_state, current_state_name,
                              previous_state_name, load_complete, objects,
                              tasks>> ]_vars

C8_Witness ==
    /\ last.op = "change" /\ last.name = "X" /\ last.raised
    /\ current_state = 1 /\ current_state_name = "B"
    /\ tasks[1].pc = "load"
    /\ objects[1].cleanups = 0

\* the step just taken called cleanup() on some object
CleanupCalledNow ==
    \/ Len(objects') < Len(objects)
    \/ \E o \in 1..Len(objects) : objects'[o].cleanups # objects[o].cleanups

\* C9: the current object is the one constructed last and has had no
\* cleanup(); every object that was replaced has had cleanup() exactly once;
\* cleanup() is called by change() only.
C9_OneCurrentObject ==
    /\ [](/\ current_state = Len(objects)
          /\ \A o \in 1..Len(objects) :
                 objects[o].cleanups = (IF o = current_state THEN 0 ELSE 1))
    /\ [][CleanupCalledNow => ChangedNow]_vars

----------------------------------------------------------------------------
(* Properties of the registry *)

\* C10: the tag of a registered type (its index in the registry, the type id
\* _serialize_net_msg writes) is the number of types registered before it:
\* 0, 1, 2, ... in registration order; a registered type keeps its tag.
C10_TagsFollowRegistrationOrder ==
    /\ [](/\ Len(tag_at_registration) = Len(message_types)
          /\ \A i \in 1..Len(tag_at_registration) :
                 /\ tag_at_registration[i].tag = i - 1
                 /\ Index(message_types, tag_at_registration[i].type) = i - 1
          /\ (reg_last.op = "serialize" /\ ~reg_last.raised)
                 => \E i \in 1..Len(tag_at_registration) :
                        /\ tag_at_registration[i].type = reg_last.type
                        /\ tag_at_registration[i].tag = reg_last.type_id)
    /\ [][\A t \in MsgTypes :
              Index(message_types, t) # -1
                  => Index(message_types', t) = Index(message_types, t)]_vars

C10_Witness ==
    /\ Len(message_types) = 3
    /\ reg_last.op = "serialize" /\ ~reg_last.raised
    /\ reg_last.type_id = 2


----------------------------------------------------------------------------
(* Properties of the registry and of the network manager *)

\* C11: registering a class that is already in the registry raises and
\* leaves the list and its order as they were, and every class registered
\* after that, being a different one, is appended under the next free tag:
\* the number of classes in the list.
C11_DuplicateRejected ==
    [][reg_last'.op = "register" =>
          LET t == reg_last'.type
          IN /\ Index(message_types, t) # -1 =>
                    /\ reg_last'.raised
                    /\ message_types' = message_types
                    /\ tag_at_registration' = tag_at_registration
             /\ (IsDataclass(t) /\ Index(message_types, t) = -1) =>
                    /\ ~reg_last'.raised
                    /\ message_types' = Append(message_types, t)
                    /\ Index(message_types', t) = Len(message_types)
                    /\ \A u \in MsgTypes :
                           Index(message_types, u) # -1 =>
                               Index(message_types', u) = Index(message_types, u)]_vars

\* a duplicate registration of a dataclass was refused with two classes in
\* the registry
C11_Witness ==
    /\ reg_last.op = "register"
    /\ reg_last.raised
    /\ IsDataclass(reg_last.type)
    /\ Len(message_types) = 2

\* the side a send() or get_messages() of the last call resolved to
ResolvedSide == TransportFromNetrole(net_last.role)

\* C12: send() of a message whose class is not registered raises the
\* unregistered-type error and hands nothing to a writer; once the class is
\* registered the same send (to a role that resolves) raises nothing and
\* every datagram it hands over carries the tag of the class.
C12_UnregisteredSendFails ==
    net_last.op = "send" =>
        /\ Index(message_types, net_last.msg.type) = -1 =>
               /\ net_last.error = "unregistered"
               /\ net_last.written = <<>>
        /\ (Index(message_types, net_last.msg.type) # -1 /\ ResolvedSide \in Sides) =>
               /\ net_last.error = ""
               /\ \A i \in 1..Len(net_last.written) :
                      /\ net_last.written[i].data.type_id =
                             Index(message_types, net_last.msg.type)
                      /\ message_types[net_last.written[i].data.type_id + 1] =
                             net_last.msg.type

\* a send of an unregistered class was refused while another class was
\* registered and a connection was there to write to
C12_Witness ==
    /\ net_last.op = "send"
    /\ net_last.error = "unregistered"
    /\ message_types # <<>>
    /\ ResolvedSide \in Sides
    /\ transports[ResolvedSide].connections # <<>>

\* the other side
Other(side) == IF side = "client" THEN "server" ELSE "client"

\* the type tag of a drained item is one of 0 .. (registered types - 1)
TagInRange(item) ==
    0 <= item.data.type_id /\ item.data.type_id < Len(message_types)

\* the reader of a transport holds exactly the items drained, in their order
SameDatagrams(reader, drained) ==
    /\ Len(reader) = Len(drained)
    /\ \A i \in 1..Len(reader) :
           /\ reader[i].conn = drained[i].conn
           /\ reader[i].data = drained[i].data

\* C13: on a DUAL manager a send or get_messages with role CLIENT
\* (SERVER) writes only to connections of the client (server) transport and
\* drains only its reader; the other transport is left as it was.
C13_ExplicitRoleOneTransport ==
    [][(/\ net_role = "DUAL"
        /\ net_last'.op \in {"send", "get_messages"}
        /\ net_last'.role \in {"CLIENT", "SERVER"}) =>
          LET own == IF net_last'.role = "CLIENT" THEN "client" ELSE "server"
          IN /\ transports'[Other(own)] = transports[Other(own)]
             /\ \A i \in 1..Len(net_last'.written) :
                    /\ net_last'.written[i].side = own
                    /\ net_last'.written[i].conn \in Handles(transports[own])
             /\ net_last'.op = "send" =>
                    /\ transports' = transports
                    /\ (net_last'.error = "" =>
                            Len(net_last'.written) = Len(transports[own].connections))
             /\ (net_last'.op = "get_messages" /\ net_last'.error # "ValueError") =>
                    /\ SameDatagrams(transports[own].reader, net_last'.drained)
                    /\ transports'[own].reader = <<>>]_vars

\* a DUAL manager drained its client transport while a datagram was waiting
\* in the reader of the server transport
C13_Witness ==
    /\ net_role = "DUAL"
    /\ net_last.op = "get_messages"
    /\ net_last.role = "CLIENT"
    /\ net_last.drained # <<>>
    /\ transports["server"].reader # <<>>

\* the last call was send or get_messages with role DUAL (the default of the
\* argument) on a DUAL manager
DualOnDual ==
    /\ net_role = "DUAL"
    /\ net_last.op \in {"send", "get_messages"}
    /\ net_last.role = "DUAL"

\* C14 as stated: on a DUAL manager send and get_messages with role DUAL
\* raise the ambiguous-role error, hand nothing to a writer and drain
\* nothing.
C14_DualAlwaysAmbiguous ==
    DualOnDual =>
        /\ net_last.error = "ambiguous"
        /\ net_last.written = <<>>
        /\ net_last.drained = <<>>

\* C14 (amended): on a DUAL manager get_messages with role DUAL, and send
\* with role DUAL of a message of a registered class, raise the
\* ambiguous-role error; send of a message of a class that is not registered
\* raises the unregistered-type error, before the role is looked at.  In
\* every case nothing is handed to a writer, nothing is drained and both
\* transports stay as they were.
C14_DualRoleAmbiguous ==
    /\ [](DualOnDual =>
            /\ net_last.error =
                   (IF net_last.op = "send"
                       /\ Index(message_types, net_last.msg.type) = -1
                    THEN "unregistered" ELSE "ambiguous")
            /\ net_last.written = <<>>
            /\ net_last.drained = <<>>
            /\ net_last.returned = <<>>)
    /\ [][net_role = "DUAL" /\ net_last'.op \in {"send", "get_messages"}
              /\ net_last'.role = "DUAL" => transports' = transports]_vars

\* a DUAL manager refused get_messages(DUAL) with datagrams waiting in both
\* readers
C14_Witness ==
    /\ net_role = "DUAL"
    /\ net_last.op = "get_messages"
    /\ net_last.role = "DUAL"
    /\ net_last.error = "ambiguous"
    /\ transports["client"].reader # <<>>
    /\ transports["server"].reader # <<>>

\* C15: on a CLIENT-only or SERVER-only manager send and get_messages with
\* role DUAL resolve to the manager's one transport, succeed (a send of a
\* registered class, a get_messages that meets no datagram of a connection
\* removed from the table) and do exactly what the call with the manager's
\* own role does: same datagrams written, same items drained and messages
\* returned, same transports after.
C15_DualMeansOwnRole ==
    /\ [](net_role # "DUAL" /\ net_last.op = "send" /\ net_last.role = "DUAL" =>
            /\ net_last = [SendEffect(net_last.msg, net_role) EXCEPT !.role = "DUAL"]
            /\ net_last.error \notin {"ambiguous", "no_transport"}
            /\ Index(message_types, net_last.msg.type) # -1 => net_last.error = "")
    /\ [][net_role # "DUAL" /\ net_last'.op = "get_messages"
              /\ net_last'.role = "DUAL" =>
            LET g == GetMessagesEffect(transports, net_role)
            IN /\ transports' = g.transports
               /\ net_last'.error = g.error
               /\ net_last'.drained = g.drained
               /\ net_last'.returned = g.returned
               /\ (\A i \in 1..Len(g.drained) : TagInRange(g.drained[i])) =>
                      net_last'.error \in {"", "ValueError"}]_vars

\* the last call named the single role the manager does not have
OtherSingleRole ==
    \/ net_role = "CLIENT" /\ net_last.role = "SERVER"
    \/ net_role = "SERVER" /\ net_last.role = "CLIENT"

\* C16: on a manager that is not DUAL, send and get_messages called with the
\* other single role raise, hand nothing to a writer and drain nothing.
C16_OtherRoleRefused ==
    (net_last.op \in {"send", "get_messages"} /\ OtherSingleRole) =>
        /\ net_last.error # ""
        /\ net_last.written = <<>>
        /\ net_last.drained = <<>>

\* C17: a send that resolves to the server transport, of a message whose
\* connection_id is set, hands its datagram only to the connection stored
\* under that id.
C17_UnicastWhenIdSet ==
    (/\ net_last.op = "send"
     /\ net_last.error = ""
     /\ net_last.msg.connection_id # NoId
     /\ ResolvedSide = "server") =>
        \A i \in 1..Len(net_last.written) :
            ConnIdOf(transports["server"].connections, net_last.written[i].conn)
                = net_last.msg.connection_id

\* C18: a get_messages that drained payloads of registered types returns one
\* message per drained item, in the order drained, each with connection_id
\* equal to the id the transport paired with the item.
C18_StampedWithSenderId ==
    (/\ net_last.op = "get_messages"
     /\ net_last.drained # <<>>
     /\ \A i \in 1..Len(net_last.drained) : TagInRange(net_last.drained[i])) =>
        /\ Len(net_last.returned) = Len(net_last.drained)
        /\ \A i \in 1..Len(net_last.returned) :
               /\ net_last.returned[i].type =
                      PyItem(message_types, net_last.drained[i].data.type_id)
               /\ net_last.returned[i].connection_id = net_last.drained[i].id

\* C19: update(), the call that closes the constructor included, polls the
\* transports of the manager without raising and invokes one handler per id
\* its polls returned: the new-connection handler for an accepted connection,
\* the disconnect handler for a lost one, in the order polled.
C19_HandlersInvokedOnce ==
    net_last.op \in {"init", "update"} =>
        /\ net_last.error = ""
        /\ Len(net_last.handled) = Len(net_last.polled)
        /\ \A i \in 1..Len(net_last.polled) :
               /\ net_last.handled[i].kind = net_last.polled[i].kind
               /\ net_last.handled[i].id = net_last.polled[i].id

RECURSIVE Position(_, _)
\* position of the first element x of a sequence, 0 when there is none
Position(seq, x) ==
    IF seq = <<>> THEN 0
    ELSE IF Head(seq) = x THEN 1
    ELSE LET r == Position(Tail(seq), x) IN IF r = 0 THEN 0 ELSE r + 1

\* C20: the manager the ticks run on is built, and in a tick the poll of the
\* transports is made, without raising, before every drain, and no item handed
\* to handle_messages comes from a connection that get_disconnects has
\* reported, in this tick or before.
C20_PollBeforeDrain ==
    /\ net_last.op = "init" => net_last.error = ""
    /\ net_last.op = "tick" =>
        /\ Head(net_last.calls) = "network.update"
        /\ \A i \in 2..Len(net_last.calls) : net_last.calls[i] # "network.update"
        /\ \A i \in 1..Len(net_last.delivered) :
               LET d == net_last.delivered[i]
               IN /\ Position(net_last.calls, "handle_messages:" \o d.side)
                         > Position(net_last.calls, "network.update")
                  /\ \A j \in 1..Len(d.drained) :
                         d.drained[j].conn \notin transports[d.side].reported

----------------------------------------------------------------------------
(* Properties of the transport *)

\* the elements of a sequence
Range(seq) == {seq[i] : i \in 1..Len(seq)}

\* no element occurs twice in a sequence
NoRepeat(seq) == \A i, j \in 1..Len(seq) : i # j => seq[i] # seq[j]

\* C21: the ids a transport issues start at 0 and strictly increase, so no
\* id is issued twice, also after its connection was removed; every key of
\* the table is an issued id and smaller than the next id.
C21_IdsIncreaseNeverReused ==
    /\ issued # <<>> => issued[1] = 0
    /\ \A i, j \in 1..Len(issued) : i < j => issued[i] < issued[j]
    /\ \A id \in Ids(transport) : id < transport.next_id /\ id \in Range(issued)
    /\ \A i \in 1..Len(issued) : issued[i] < transport.next_id
    /\ NoRepeat([i \in 1..Len(transport.connections) |-> transport.connections[i].id])

\* a connection was accepted after another one had been reported
\* disconnected
C21_Witness ==
    /\ tp_last.op = "get_new_connections"
    /\ tp_last.ids # <<>>
    /\ dc_reported # <<>>

\* C22: over all get_disconnects calls the id of every reset connection
\* that was taken out of the table is returned exactly once; from then on it
\* is no key of the table, no broadcast is written to its connection, and
\* neither get_disconnects nor get_new_connections returns it again.  A call
\* that returns leaves no reset waiting.
C22_DisconnectReportedOnce ==
    /\ NoRepeat(dc_reported)
    /\ Len(dc_reported) = Cardinality(transport.reported)
    /\ \A i \in 1..Len(dc_reported) :
           /\ dc_reported[i] \notin Ids(transport)
           /\ Cardinality({j \in 1..Len(issued) : issued[j] = dc_reported[i]}) = 1
    /\ Handles(transport) \cap transport.reported = {}
    /\ (tp_last.op = "get_disconnects" /\ tp_last.error = "") =>
           /\ transport.resets = <<>>
           /\ \A i \in 1..Len(tp_last.ids) : tp_last.ids[i] \notin Ids(transport)
    /\ (tp_last.op = "send" /\ tp_last.connection_id = NoId) =>
           \A i \in 1..Len(tp_last.written) :
               tp_last.written[i].conn \notin transport.reported

\* C23: get_new_connections returns one fresh id for every connection
\* waiting in the listener, stores the connection under it and leaves none
\* waiting, so each accepted connection is returned once, by the first call
\* after it was accepted; with none waiting it returns the empty list and
\* leaves the table and the next id as they were.
C23_NewConnectionsOnce ==
    [][tp_last'.op = "get_new_connections" =>
          /\ Len(tp_last'.ids) = Len(transport.listener)
          /\ transport'.listener = <<>>
          /\ NoRepeat(tp_last'.ids)
          /\ \A i \in 1..Len(tp_last'.ids) :
                 /\ tp_last'.ids[i] \notin Range(issued)
                 /\ tp_last'.ids[i] \notin Ids(transport)
                 /\ transport.listener[i] \notin Handles(transport)
                 /\ ConnIdOf(transport'.connections, transport.listener[i])
                        = tp_last'.ids[i]
          /\ Len(transport'.connections)
                 = Len(transport.connections) + Len(transport.listener)
          /\ transport.listener = <<>> =>
                 /\ tp_last'.ids = <<>>
                 /\ transport'.connections = transport.connections
                 /\ transport'.next_id = transport.next_id]_vars

\* one call returned the ids of two connections accepted since the call
\* before
C23_Witness ==
    /\ tp_last.op = "get_new_connections"
    /\ Len(tp_last.ids) = 2

\* C24: on a started transport start_server and start_client raise the
\* already-started error and leave the transport, and with it the started
\* flag, the table and the next id, as it was.
C24_SecondStartFails ==
    [][(transport.started /\ tp_last'.op \in {"start_server", "start_client"}) =>
          /\ tp_last'.error = "already_started"
          /\ transport' = transport
          /\ issued' = issued]_vars

\* a transport started as a server refused a start_client whose connection
\* would have been established
C24_Witness ==
    /\ tp_last.op = "start_client"
    /\ tp_last.flag
    /\ tp_last.error = "already_started"
    /\ transport.listening

\* C25: send with connection_id None hands the payload once to every
\* connection of the table (those accepted and polled and not reported
\* disconnected) and to no other; send with the id of a connection of the
\* table hands it once, to that connection only.
C25_SendTargets ==
    /\ Handles(transport) \cap (transport.reported \cup Range(transport.listener)) = {}
    /\ tp_last.op = "send" =>
           /\ \A i \in 1..Len(tp_last.written) : tp_last.written[i].data = Payload
           /\ tp_last.connection_id = NoId =>
                  /\ tp_last.error = ""
                  /\ Len(tp_last.written) = Cardinality(Handles(transport))
                  /\ {tp_last.written[i].conn : i \in 1..Len(tp_last.written)}
                         = Handles(transport)
           /\ tp_last.connection_id \in Ids(transport) =>
                  /\ tp_last.error = ""
                  /\ Len(tp_last.written) = 1
                  /\ ConnIdOf(transport.connections, tp_last.written[1].conn)
                         = tp_last.connection_id

\* a send to the second of two live connections
C25_Witness ==
    /\ tp_last.op = "send"
    /\ tp_last.connection_id = 1
    /\ Len(transport.connections) = 2
    /\ tp_last.written # <<>>

\* C26: send with an id that is no key of the table (never issued, or
\* reported disconnected) always raises the same error, hands the payload to
\* no connection and leaves the transport as it was.
C26_DeadIdRaises ==
    /\ []((/\ tp_last.op = "send"
           /\ tp_last.connection_id # NoId
           /\ tp_last.connection_id \notin Ids(transport)) =>
              /\ tp_last.error = "KeyError"
              /\ tp_last.written = <<>>)
    /\ [][tp_last'.op = "send" => transport' = transport]_vars

\* a send to the id of a connection reported disconnected was refused while
\* another connection was live
C26_Witness ==
    /\ tp_last.op = "send"
    /\ tp_last.connection_id \in Range(dc_reported)
    /\ tp_last.error = "KeyError"
    /\ transport.connections # <<>>

\* C27: the items get_messages has returned over all calls hold every
\* datagram that arrived on a connection of the table and has left the
\* reader, each once, those of one connection in their order of arrival, and
\* each item of a call is paired with the id of its connection.
C27_InOrderExactlyOnce ==
    /\ \A i, j \in 1..Len(received) :
           (i < j /\ received[i].conn = received[j].conn) =>
               received[i].data < received[j].data
    /\ \A k \in 1..Len(arrived) :
           (/\ arrived[k] \notin Range(transport.reader)
            /\ arrived[k].conn \in Handles(transport)) =>
               Cardinality({i \in 1..Len(received) :
                                received[i].data = arrived[k].data}) = 1
    /\ tp_last.op = "get_messages" =>
           \A i \in 1..Len(tp_last.messages) :
               tp_last.messages[i].id =
                   ConnIdOf(transport.connections, tp_last.messages[i].conn)

\* C30: get_disconnects and get_messages never raise.
C30_NoExceptionFromPolls ==
    tp_last.op \in {"get_disconnects", "get_messages"} => tp_last.error = ""


----------------------------------------------------------------------------
(* Properties of decoding in the network manager *)

\* the drained items of the last call whose tag is in range, in their order
DecodableDrained == SelectSeq(net_last.drained, TagInRange)

\* C28: when a batch drained by get_messages holds a payload whose tag is
\* not registered, the other messages of the batch are returned all the same,
\* in their order, and the connections of the batch stay in the table.
C28_BadPayloadDroppedAlone ==
    (/\ net_last.op = "get_messages"
     /\ ResolvedSide \in Sides
     /\ net_last.error # "ValueError"
     /\ \E i \in 1..Len(net_last.drained) : ~TagInRange(net_last.drained[i])
     /\ \E i \in 1..Len(net_last.drained) : TagInRange(net_last.drained[i])
     /\ \A i \in 1..Len(net_last.drained) : net_last.drained[i].data.type_id >= 0) =>
        /\ Len(net_last.returned) = Len(DecodableDrained)
        /\ \A i \in 1..Len(net_last.returned) :
               net_last.returned[i].type =
                   message_types[DecodableDrained[i].data.type_id + 1]
        /\ \A i \in 1..Len(net_last.drained) :
               net_last.drained[i].conn \in Handles(transports[ResolvedSide])

-----------------------------------------------------------------------------
(* start_client failure, change_to_previous before any change *)

\* C37: a start_client call that fails because no connection was established
\* leaves the transport unstarted, its connection table empty and no id
\* issued; a start_client call that succeeds stores its connection under
\* id 0, also after failed attempts.
C37_FailedStartClientLeavesFresh ==
    /\ (tp_last.op = "start_client" /\ tp_last.error = "connect_failed") =>
           /\ ~transport.started
           /\ transport.connections = <<>>
           /\ transport.next_id = 0
           /\ issued = <<>>
    /\ (tp_last.op = "start_client" /\ tp_last.error = "") =>
           /\ tp_last.ids = <<0>>
           /\ Ids(transport) = {0}
           /\ transport.started

C37_Witness ==
    /\ tp_last.op = "start_client"
    /\ ~tp_last.flag
    /\ tp_last.error = "connect_failed"
    /\ transport = NewTransport

\* C38: change_to_previous() on a manager on which no change() has succeeded
\* (no state object was ever constructed) raises the unknown-state error and
\* leaves the manager without a current state, with load_complete false, no
\* object built and no task added.
C38_PreviousBeforeAnyChangeRaises ==
    [][ (objects = <<>> /\ last'.op = "change_to_previous") =>
            /\ last'.raised
            /\ last'.error = "RuntimeError"
            /\ current_state' = None
            /\ ~load_complete'
            /\ objects' = <<>>
            /\ tasks' = <<>> ]_vars

-----------------------------------------------------------------------------
(* NetworkGameStateManager.update: routing and the load_complete gate *)

\* the reader holds a payload whose tag names a registered type
HoldsDecodable(reader) == \E i \in 1..Len(reader) : TagInRange(reader[i])

\* the entries of `delivered` handed to the state machine of a side
DeliveredTo(delivered, side) ==
    {i \in 1..Len(delivered) : delivered[i].side = side}

\* C34: in a DUAL host every batch handed to a state machine's
\* handle_messages by a tick is the content of that side's own transport, and
\* whatever a tick takes out of a transport that held a decodable message is
\* handed to exactly one state machine, the one of that side.  Ticks in which
\* a datagram of a connection already removed from the table is met are left
\* aside.
C34_DualRoutesEachDrainedOnce ==
    [][ (/\ net_role = "DUAL"
         /\ net_last'.op = "tick"
         /\ net_last'.error # "ValueError") =>
            /\ \A i \in 1..Len(net_last'.delivered) :
                   LET d == net_last'.delivered[i]
                   IN /\ SameDatagrams(transports[d.side].reader, d.drained)
                      /\ Len(d.messages) = Len(d.drained)
            /\ \A side \in Sides :
                   (/\ HoldsDecodable(transports[side].reader)
                    /\ transports'[side].reader # transports[side].reader) =>
                       Cardinality(DeliveredTo(net_last'.delivered, side)) = 1
      ]_vars

\* C36: a tick that finds load_complete false on a side leaves that side's
\* transport queue as it was; a tick that finds it true, on a state that has
\* a handle_messages, hands the whole queue, in arrival order, to it.  Ticks in which a
\* datagram of a connection already removed from the table is met are left
\* aside.
C36_UnloadedKeepsQueueThenDeliversAll ==
    [][ (net_last'.op = "tick" /\ net_last'.error # "ValueError") =>
            \A side \in Sides : HasGsm(side) =>
                /\ ~net_last'.loaded[side] =>
                       transports'[side].reader = transports[side].reader
                /\ (net_last'.loaded[side] /\ net_last'.handles[side]
                        /\ HoldsDecodable(transports[side].reader)) =>
                       \E i \in DeliveredTo(net_last'.delivered, side) :
                           /\ SameDatagrams(transports[side].reader,
                                            net_last'.delivered[i].drained)
                           /\ Len(net_last'.delivered[i].messages)
                                  = Len(transports[side].reader)
      ]_vars

-----------------------------------------------------------------------------
(* The size of the registry *)

\* C32: the registry never holds more than 256 message types, and no
\* registration succeeds with a type tag greater than 255.
C32_AtMost256Types ==
    /\ Len(message_types) <= 256
    /\ \A i \in 1..Len(tag_at_registration) : tag_at_registration[i].tag <= 255

-----------------------------------------------------------------------------
(* NetworkGameStateManager.change and change_to_previous (src/main.py)      *)
(*                                                                          *)
(* The two state machines of a host, each with its own set of states.  A    *)
(* machine is a record: the names it was constructed with, current_state    *)
(* (None or the number of the object built), the two names, the number of   *)
(* objects built so far, and whether the root nodes of the current object   *)
(* were detached by the composite.                                          *)

\* a role without a state machine: client_gsm / server_gsm is None
NoGsm ==
    [exists |-> FALSE, states |-> {}, current_state |-> None,
     current_state_name |-> "", previous_state_name |-> "", built |-> 0,
     detached |-> FALSE]

\* GameStateManager(showbase, states)
NewGsm(states) == [NoGsm EXCEPT !.exists = TRUE, !.states = states]

\* GameStateManager.change(state_name, *args) on the machine g: [gsm, error].
\* An unknown name raises before anything is written; a constructor that
\* raises leaves the names rewritten and the object that was current in
\* place
GsmChange(g, state_name, args) ==
    IF state_name \notin g.states
    THEN [gsm |-> g, error |-> "unknown_state"]
    ELSE LET named == [g EXCEPT
                          !.previous_state_name =
                              IF g.current_state = None THEN state_name
                              ELSE g.current_state_name,
                          !.current_state_name = state_name]
         IN IF ConstructorRaises(state_name, args)
            THEN [gsm |-> named, error |-> "TypeError"]
            ELSE [gsm |-> [named EXCEPT !.current_state = g.built + 1,
                                        !.built = @ + 1,
                                        !.detached = FALSE],
                  error |-> ""]

\* the arguments NetworkGameStateManager.change hands on: network=self.network
HostArgs == 1

\* NetworkGameStateManager.change(state_name) on the machines c and s:
\* [client, server, error]
HostChangeEffect(c, s, state_name) ==
    LET c1 == IF c.exists THEN GsmChange(c, state_name, HostArgs)
              ELSE [gsm |-> c, error |-> ""]
    IN IF c1.error # ""
       THEN [client |-> c1.gsm, server |-> s, error |-> c1.error]
       ELSE LET s1 == IF s.exists THEN GsmChange(s, state_name, HostArgs)
                      ELSE [gsm |-> s, error |-> ""]
            IN IF s1.error # ""
               THEN [client |-> c1.gsm, server |-> s1.gsm, error |-> s1.error]
               ELSE [client |-> c1.gsm,
                     server |-> [s1.gsm EXCEPT !.detached = s.exists],
                     error |-> ""]

\* NetworkGameStateManager.change_to_previous(): each machine goes to its own
\* previous name, the client one first, and neither is given the network
HostChangeToPreviousEffect(c, s) ==
    LET c1 == IF c.exists THEN GsmChange(c, c.previous_state_name, 0)
              ELSE [gsm |-> c, error |-> ""]
    IN IF c1.error # ""
       THEN [client |-> c1.gsm, server |-> s, error |-> c1.error]
       ELSE LET s1 == IF s.exists THEN GsmChange(s, s.previous_state_name, 0)
                      ELSE [gsm |-> s, error |-> ""]
            IN [client |-> c1.gsm, server |-> s1.gsm, error |-> s1.error]

HostChange(state_name) ==
    LET r == HostChangeEffect(client_gsm, server_gsm, state_name)
    IN /\ client_gsm.built < MaxObjs
       /\ server_gsm.built < MaxObjs
       /\ client_gsm' = r.client
       /\ server_gsm' = r.server
       /\ host_last' = [op |-> "change", name |-> state_name, error |-> r.error]
       /\ UNCHANGED <<gsm_vars, reg_vars, net_vars, tp_vars, srv_vars, codec_vars>>

HostChangeToPrevious ==
    LET r == HostChangeToPreviousEffect(client_gsm, server_gsm)
    IN /\ client_gsm.built < MaxObjs
       /\ server_gsm.built < MaxObjs
       /\ client_gsm' = r.client
       /\ server_gsm' = r.server
       /\ host_last' = [op |-> "change_to_previous", name |-> "",
                        error |-> r.error]
       /\ UNCHANGED <<gsm_vars, reg_vars, net_vars, tp_vars, srv_vars, codec_vars>>

\* the state sets a host may be constructed with
StateSets == SUBSET StateNames \ {{}}

\* NetworkGameStateManager.__post_init__, lines 48-52, for a role and the two
\* state sets
InitHost ==
    /\ InitGSM
    /\ base = "none"
    /\ InitRegistry
    /\ NetIdle
    /\ TransportIdle
    /\ \E role \in NetRoles, cs \in StateSets, ss \in StateSets :
           /\ client_gsm = IF role \in {"DUAL", "CLIENT"} THEN NewGsm(cs) ELSE NoGsm
           /\ server_gsm = IF role \in {"DUAL", "SERVER"} THEN NewGsm(ss) ELSE NoGsm
    /\ host_last = [op |-> "init", name |-> "", error |-> ""]
    /\ player_contrs = {}
    /\ conn_status = <<>>
    /\ srv_last = <<>>
    /\ codec_msg = <<>>
    /\ codec_bytes = <<>>
    /\ codec_last = <<>>

NextHost ==
    \/ \E n \in CallNames : HostChange(n)
    \/ HostChangeToPrevious

SpecHost == InitHost /\ [][NextHost]_vars

\* C35: a composite change(name) on a host with both machines leaves either
\* both machines with current_state_name equal to name or both machines as
\* they were, whether it returned or raised.
C35_CompositeChangeTogether ==
    [][ (host_last'.op = "change" /\ client_gsm.exists /\ server_gsm.exists) =>
            \/ /\ client_gsm'.current_state_name = host_last'.name
               /\ server_gsm'.current_state_name = host_last'.name
            \/ /\ client_gsm' = client_gsm
               /\ server_gsm' = server_gsm
      ]_vars

-----------------------------------------------------------------------------
(* MainServer (src/src/game/gamestates/main.py): the table of players      *)
(*                                                                          *)
(* player_contrs is the set of keys of the dict; conn_status follows the    *)
(* connections of the server transport, whose ids are issued in order.      *)

NUM_BOTS == 1
BOT_ID_START == 1000

\* the ids start() gives the bots
BotIds == {BOT_ID_START + idx : idx \in 0..(NUM_BOTS - 1)}

\* the connection ids the server transport can issue
ConnIds == 0..(MaxConns - 1)

\* a record of one call on the state: the connection id it was about, the
\* error raised ("" for none) and the messages handed to network.send
SrvCall(op, id) == [op |-> op, id |-> id, error |-> "", sent |-> <<>>]

\* PlayerActionMsg(playerid=..., action=...), lines 516-519, 531-534 and
\* 541-544: the class derives from the Protocol NetworkMessage
\* (game/network_messages.py:3-6, 21-23; lib/networking.py:31-33), which
\* gives it no constructor taking arguments, so the call raises TypeError and
\* network.send is not reached
PlayerActionMsgInit(playerid, action) == "TypeError"

\* MainServer.add_new_player(connid): [players, sent, error]; the player is
\* stored first.  For connid None (NoId) the comparison with BOT_ID_START
\* raises TypeError, for a connection id the message cannot be built
AddNewPlayer(players, connid) ==
    LET stored == players \cup {connid}
    IN IF connid = NoId
       THEN [players |-> stored, sent |-> <<>>, error |-> "TypeError"]
       ELSE IF connid < BOT_ID_START
       THEN [players |-> stored, sent |-> <<>>,
             error |-> PlayerActionMsgInit(connid, "REGISTER")]
       ELSE [players |-> stored, sent |-> <<>>, error |-> ""]

\* MainServer.remove_player(connid): [players, sent, error]; the player is
\* looked up (KeyError when there is none) and deleted, then the message
\* cannot be built
RemovePlayer(players, connid) ==
    IF connid \notin players
    THEN [players |-> players, sent |-> <<>>, error |-> "KeyError"]
    ELSE [players |-> players \ {connid}, sent |-> <<>>,
          error |-> PlayerActionMsgInit(connid, "REMOVE")]

\* MainServer.handle_disconnect(conn_id)
HandleDisconnect(players, conn_id) == RemovePlayer(players, conn_id)

\* MainServer.handle_messages on one PlayerInputMsg whose connection_id is
\* playerid (NoId for None, what a message of MainClient.update carries);
\* `fires` says whether 'fire' is among its actions and the player is alive,
\* which calls spawn_projectile: [players, sent, error]
HandleInput(players, playerid, fires) ==
    LET a == IF playerid \notin players
             THEN AddNewPlayer(players, playerid)
             ELSE [players |-> players, sent |-> <<>>, error |-> ""]
    IN IF a.error # "" THEN a
       ELSE IF fires
       THEN [players |-> a.players, sent |-> <<>>,
             error |-> PlayerActionMsgInit(playerid, "FIRE")]
       ELSE a

\* MainServer.start(): the bots are added
ServerStart ==
    /\ BotIds \cap player_contrs = {}
    /\ player_contrs' = player_contrs \cup BotIds
    /\ srv_last' = SrvCall("start", NoId)
    /\ UNCHANGED <<conn_status, gsm_vars, reg_vars, net_vars, tp_vars,
                   host_vars, codec_vars>>

\* a client connects to the server: the transport issues the next id
ClientArrives ==
    \E id \in ConnIds :
        /\ conn_status[id] = "none"
        /\ \A j \in ConnIds : j < id => conn_status[j] # "none"
        /\ conn_status' = [conn_status EXCEPT ![id] = "live"]
        /\ srv_last' = SrvCall("connect", id)
        /\ UNCHANGED <<player_contrs, gsm_vars, reg_vars, net_vars, tp_vars,
                       host_vars, codec_vars>>

\* the connection_id an input message can carry: None (NoId), as
\* MainClient.update builds it (lines 469-474) and _deserialize_net_msg
\* leaves it, or the id of a connection
InputIds == ConnIds \cup {NoId}

\* handle_messages with an input message of a client that connected, once
\* the state has started; a message queued before its connection was lost is
\* drained after the disconnect was handled
ServerInput(id, fires) ==
    LET r == HandleInput(player_contrs, id, fires)
    IN /\ BotIds \subseteq player_contrs
       /\ IF id = NoId THEN \E c \in ConnIds : conn_status[c] # "none"
                       ELSE conn_status[id] # "none"
       /\ player_contrs' = r.players
       /\ srv_last' = [SrvCall("input", id) EXCEPT !.error = r.error,
                                                   !.sent = r.sent]
       /\ UNCHANGED <<conn_status, gsm_vars, reg_vars, net_vars, tp_vars,
                      host_vars, codec_vars>>

\* MainServer.handle_disconnect called with the id of a connection the
\* transport has lost.  The caller written for it is handle_dc of
\* NetworkGameStateManager (main.py:55-63), which NetworkManager.update
\* never invokes: the step is what a caller of the method gets
ServerDisconnect(id) ==
    LET r == HandleDisconnect(player_contrs, id)
    IN /\ conn_status[id] = "live"
       /\ conn_status' = [conn_status EXCEPT ![id] = "gone"]
       /\ player_contrs' = r.players
       /\ srv_last' = [SrvCall("disconnect", id) EXCEPT !.error = r.error,
                                                        !.sent = r.sent]
       /\ UNCHANGED <<gsm_vars, reg_vars, net_vars, tp_vars, host_vars, codec_vars>>

\* MainServer.__init__: no player yet, no connection yet
InitServerState ==
    /\ InitGSM
    /\ base = "none"
    /\ InitRegistry
    /\ NetIdle
    /\ TransportIdle
    /\ client_gsm = <<>>
    /\ server_gsm = <<>>
    /\ host_last = <<>>
    /\ player_contrs = {}
    /\ conn_status = [id \in ConnIds |-> "none"]
    /\ srv_last = SrvCall("init", NoId)
    /\ codec_msg = <<>>
    /\ codec_bytes = <<>>
    /\ codec_last = <<>>

NextServerState ==
    \/ ServerStart
    \/ ClientArrives
    \/ \E id \in InputIds, fires \in BOOLEAN : ServerInput(id, fires)
    \/ \E id \in ConnIds : ServerDisconnect(id)

SpecServerState == InitServerState /\ [][NextServerState]_vars

\* C31: the disconnect of any connection is handled by the server state
\* without an error, also when the connection never sent an input message, and
\* leaves no player under its id.
C31_DisconnectNeverRaises ==
    srv_last.op = "disconnect" =>
        /\ srv_last.error = ""
        /\ srv_last.id \notin player_contrs

-----------------------------------------------------------------------------
(* NetworkManager._serialize_net_msg and _deserialize_net_msg, called on    *)
(* bytes as their signatures say (src/src/lib/networking.py, lines 123-159) *)

\* the dataclasses registered here
WireTypes == {1, 2, 3}

\* the messages handed to _serialize_net_msg: an instance of a dataclass or
\* of a class that is none, with its connection_id field
WireMessages ==
    [type : WireTypes \cup {NotADataclass}, connection_id : {NoId, 0}]

\* no message
NoMessage == [type |-> NotADataclass, connection_id |-> NoId]

\* the bytes a serializer makes of the dict of a message: what deserialize
\* is handed when it is handed bytes
Blob(msgdict) == [kind |-> "bytes", id |-> NoId, data |-> msgdict]

\* NetworkManager._serialize_net_msg(message), lines 123-143: [error, bytes].
\* A class that is not registered raises RuntimeError; a registered class is
\* a dataclass, so dataclasses.asdict accepts the instance, and the
\* serializer is handed the dict with its __typeid__
SerializeNetMsgEffect(msg) ==
    LET type_id == TypeIdOf(message_types, msg.type)
    IN IF type_id = -1 THEN [error |-> "unregistered", bytes |-> <<>>]
       ELSE [error |-> "", bytes |-> <<Blob(WireOf(msg, type_id))>>]

\* a record of one of these calls: the error raised ("" for none), the dict
\* of the bytes decoded and the message built
CodecCall(op) ==
    [op |-> op, error |-> "", payload |-> [type_id |-> 0, connection_id |-> NoId],
     message |-> NoMessage]

\* register_message_type called on the manager of this specification
WireRegister(t) ==
    /\ RegisterBody(t)
    /\ codec_last' = CodecCall("register")
    /\ UNCHANGED <<codec_msg, codec_bytes, gsm_vars, net_vars, tp_vars,
                   host_vars, srv_vars>>

SerializeCall(msg) ==
    \E r \in {SerializeNetMsgEffect(msg)} :
       /\ codec_msg' = msg
       /\ codec_bytes' = r.bytes
       /\ codec_last' = [CodecCall("serialize") EXCEPT !.error = r.error]
       /\ UNCHANGED <<gsm_vars, reg_vars, net_vars, tp_vars, host_vars, srv_vars>>

\* _deserialize_net_msg on the bytes the last _serialize_net_msg returned,
\* with the registry as it was then
DeserializeOwn ==
    /\ codec_last.op = "serialize"
    /\ codec_bytes # <<>>
    /\ \E r \in {DeserializeNetMsg(codec_bytes[1])} :
           codec_last' = [CodecCall("deserialize") EXCEPT
                              !.error = r.error, !.message = r.msg,
                              !.payload = codec_bytes[1].data]
    /\ UNCHANGED <<codec_msg, codec_bytes, gsm_vars, reg_vars, net_vars,
                   tp_vars, host_vars, srv_vars>>

\* _deserialize_net_msg on bytes a peer made of the given dict
DeserializeReceived(payload) ==
    /\ \E r \in {DeserializeNetMsg(Blob(payload))} :
           codec_last' = [CodecCall("receive") EXCEPT
                              !.error = r.error, !.message = r.msg,
                              !.payload = payload]
    /\ UNCHANGED <<codec_msg, codec_bytes, gsm_vars, reg_vars, net_vars,
                   tp_vars, host_vars, srv_vars>>

\* a program that has constructed a NetworkManager, or failed to, and has
\* serialised nothing yet
InitRoundTrip ==
    /\ InitGSM
    /\ base = "none"
    /\ InitRegistry
    /\ NetworkManagerInit
    /\ TransportIdle
    /\ client_gsm = <<>>
    /\ server_gsm = <<>>
    /\ host_last = <<>>
    /\ player_contrs = {}
    /\ conn_status = <<>>
    /\ srv_last = <<>>
    /\ codec_msg = NoMessage
    /\ codec_bytes = <<>>
    /\ codec_last = CodecCall("init")

NextRoundTrip ==
    /\ Constructed
    /\ \/ \E t \in WireTypes \cup {NotADataclass} : WireRegister(t)
       \/ \E msg \in WireMessages : SerializeCall(msg)
       \/ DeserializeOwn
       \/ \E payload \in InPayloads : DeserializeReceived(payload)

SpecRoundTrip == InitRoundTrip /\ [][NextRoundTrip]_vars

C33_RoundTripEveryMessage ==
    serializer = "MsgspecNetworkSerializer" =>
        /\ (codec_last.op = "serialize"
            /\ TypeIdOf(message_types, codec_msg.type) # -1)
               => codec_last.error = ""
        /\ codec_last.op = "deserialize" =>
               /\ codec_last.error = ""
               /\ codec_last.message = codec_msg

====
